---- MODULE Spec2Model ----
(***************************************************************************)
(* Verification model of the chicago-style-checker rewrite pipeline.       *)
(*                                                                         *)
(* A text is a sequence of UTF-16 code units; a code unit is a string      *)
(* token ("a", " ", "-", and EM, LQ, RQ, DQ for the em dash, the two smart *)
(* double quotes and the straight double quote).  All offsets are 0-based  *)
(* and half-open, as in the JavaScript source.                             *)
(***************************************************************************)
EXTENDS Integers, Sequences, FiniteSets, TLC

\* ------------------------------------------------------------ code units
EM == "EM"
LQ == "LQ"
RQ == "RQ"
DQ == "DQ"
CR == "CR"
LF == "LF"

Whitespace == {" ", CR, LF}
LowerSeq == <<"a", "b", "c", "d", "e", "f", "g", "h", "i", "j", "k", "l", "m",
              "n", "o", "p", "q", "r", "s", "t", "u", "v", "w", "x", "y", "z">>
UpperSeq == <<"A", "B", "C", "D", "E", "F", "G", "H", "I", "J", "K", "L", "M",
              "N", "O", "P", "Q", "R", "S", "T", "U", "V", "W", "X", "Y", "Z">>
Lowers == {LowerSeq[i] : i \in 1..Len(LowerSeq)}
Uppers == {UpperSeq[i] : i \in 1..Len(UpperSeq)}
Digits == {"0", "1", "2", "3", "4", "5", "6", "7", "8", "9"}
\* \w is [A-Za-z0-9_]; [a-z0-9] with the i flag is the same set without "_".
WordChars == Uppers \cup Lowers \cup Digits \cup {"_"}
AlnumChars == Uppers \cup Lowers \cup Digits

isSpace(c) == c \in Whitespace
isWord(c) == c \in WordChars

toLowerChar(c) ==
    IF c \in Uppers THEN LowerSeq[CHOOSE i \in 1..Len(UpperSeq) : UpperSeq[i] = c] ELSE c
toUpperChar(c) ==
    IF c \in Lowers THEN UpperSeq[CHOOSE i \in 1..Len(LowerSeq) : LowerSeq[i] = c] ELSE c

Min2(a, b) == IF a < b THEN a ELSE b
Max2(a, b) == IF a > b THEN a ELSE b
Clamp(i, n) == Max2(0, Min2(i, n))

\* String.prototype.substring(a, b): clamps both indices, swaps them if a > b.
substring(s, a, b) ==
    LET x == Clamp(a, Len(s))
        y == Clamp(b, Len(s))
    IN SubSeq(s, Min2(x, y) + 1, Max2(x, y))

\* String.prototype.slice(a) / slice(-n) are used with in-range arguments only.
sliceLast(s, n) == substring(s, Len(s) - n, Len(s))
sliceFirst(s, n) == substring(s, 0, n)

toLowerCase(s) == [i \in 1..Len(s) |-> toLowerChar(s[i])]

startsWithAt(s, p, i) ==
    /\ i >= 0
    /\ i + Len(p) <= Len(s)
    /\ \A k \in 1..Len(p) : s[i + k] = p[k]

startsWith(s, p) == startsWithAt(s, p, 0)
endsWith(s, p) == startsWithAt(s, p, Len(s) - Len(p))

\* String.prototype.indexOf(p, from): first index >= from, or -1.
indexOf(s, p, from) ==
    LET hits == {i \in Clamp(from, Len(s))..Len(s) : startsWithAt(s, p, i)}
    IN IF hits = {} THEN -1 ELSE CHOOSE i \in hits : \A j \in hits : i <= j

trimStart(s) ==
    LET keep == {i \in 1..Len(s) : ~isSpace(s[i])}
    IN IF keep = {} THEN <<>>
       ELSE SubSeq(s, CHOOSE i \in keep : \A j \in keep : i <= j, Len(s))

trimEnd(s) ==
    LET keep == {i \in 1..Len(s) : ~isSpace(s[i])}
    IN IF keep = {} THEN <<>>
       ELSE SubSeq(s, 1, CHOOSE i \in keep : \A j \in keep : i >= j)

trim(s) == trimStart(trimEnd(s))

isBlank(s) == trim(s) = <<>>

\* ------------------------------------------------------------ changes
\* A Change whose loc is absent carries NoLoc.
NoLoc == [start |-> -1, end |-> -1]
hasLoc(c) == c.loc # NoLoc
Loc(a, b) == [start |-> a, end |-> b]

\* `c${n}` and the other id shapes, kept apart by their prefix.
IdC(n) == <<"c", n>>

\* ------------------------------------------------------------ rule engine
RuleCtxLen == 20
DefaultCtxLen == 30

Dashes == <<"-", "-">>

commonTypos ==
    << <<"definately", <<"d","e","f","i","n","a","t","e","l","y">>, <<"d","e","f","i","n","i","t","e","l","y">> >>,
       <<"seperately", <<"s","e","p","e","r","a","t","e","l","y">>, <<"s","e","p","a","r","a","t","e","l","y">> >>,
       <<"occured", <<"o","c","c","u","r","e","d">>, <<"o","c","c","u","r","r","e","d">> >>,
       <<"recieve", <<"r","e","c","i","e","v","e">>, <<"r","e","c","e","i","v","e">> >>,
       <<"teh", <<"t","e","h">>, <<"t","h","e">> >> >>

\* The reason strings of the rules, shortened (they differ pairwise, as in the source).
ReasonDash == <<"E", "m", " ", "d", "a", "s", "h">>
ReasonQuotes == <<"S", "m", "a", "r", "t", " ", "q">>
ReasonSpaces == <<"S", "i", "n", "g", "l", "e">>
ReasonAuto == <<"A", "u", "t", "o">>

TypoRule(k) ==
    [kind |-> "typo", typo |-> commonTypos[k][2], fix |-> commonTypos[k][3],
     out |-> <<>>, type |-> "spelling", reason |-> <<"F", "i", "x", " ">> \o commonTypos[k][2]]

PlainRule(kind, out, type, reason) ==
    [kind |-> kind, typo |-> <<>>, fix |-> <<>>, out |-> out, type |-> type, reason |-> reason]

\* The rules in application order, route.ts.
RouteRules ==
    <<PlainRule("emdash", <<EM>>, "punctuation", ReasonDash)>>
    \o [k \in 1..Len(commonTypos) |-> TypoRule(k)]
    \o <<PlainRule("qopen", <<LQ>>, "punctuation", ReasonQuotes),
         PlainRule("qclose", <<RQ>>, "punctuation", ReasonQuotes),
         PlainRule("spaces", <<" ">>, "other", ReasonSpaces)>>

\* The rules of the fixed-point handler: both quote rules replace the straight
\* quote by itself there, so they record nothing.
LoopRules ==
    <<PlainRule("emdash", <<EM>>, "punctuation", ReasonDash)>>
    \o [k \in 1..Len(commonTypos) |-> TypoRule(k)]
    \o <<PlainRule("qopen", <<DQ>>, "punctuation", ReasonQuotes),
         PlainRule("qclose", <<DQ>>, "punctuation", ReasonQuotes),
         PlainRule("spaces", <<" ">>, "spacing", ReasonSpaces)>>

charAt(s, p) == IF p >= 0 /\ p < Len(s) THEN s[p + 1] ELSE "NONE"

spaceRunPair(s, p) == IF charAt(s, p) = " " /\ charAt(s, p + 1) = " " THEN 2 ELSE 0

spaceRun(s, p) ==
    LET stops == {i \in p..Len(s) : charAt(s, i) # " "}
    IN (CHOOSE i \in stops : \A j \in stops : i <= j) - p

\* Length of the regex's match starting at offset p, 0 when it does not match there.
matchLen(rule, s, p) ==
    CASE rule.kind = "emdash" ->
           LET base == IF isSpace(charAt(s, p)) /\ startsWithAt(s, Dashes, p + 1) THEN 3
                       ELSE IF startsWithAt(s, Dashes, p) THEN 2 ELSE 0
           IN IF base = 0 THEN 0
              ELSE IF isSpace(charAt(s, p + base)) THEN base + 1 ELSE base
      [] rule.kind = "typo" ->
           IF /\ startsWithAt(toLowerCase(s), rule.typo, p)
              /\ ~isWord(charAt(s, p - 1))
              /\ ~isWord(charAt(s, p + Len(rule.typo)))
           THEN Len(rule.typo) ELSE 0
      [] rule.kind = "qopen" ->
           IF charAt(s, p) = DQ /\ isWord(charAt(s, p + 1)) THEN 1 ELSE 0
      [] rule.kind = "qclose" ->
           IF charAt(s, p) = DQ /\ isWord(charAt(s, p - 1)) THEN 1 ELSE 0
      [] rule.kind = "spaces" ->
           IF spaceRun(s, p) >= 2 THEN spaceRun(s, p) ELSE 0

replacementFn(rule, before) ==
    IF rule.kind = "typo"
    THEN IF before[1] = toUpperChar(before[1])
         THEN <<toUpperChar(rule.fix[1])>> \o Tail(rule.fix)
         ELSE rule.fix
    ELSE rule.out

\* regex.exec in a loop from lastIndex = 0: the successive leftmost matches,
\* of which those with before # after are kept.
RECURSIVE execAll(_, _, _)
execAll(rule, s, from) ==
    LET hits == {p \in from..(Len(s) - 1) : matchLen(rule, s, p) > 0}
        match(p, n, before, after) ==
            IF before # after
            THEN <<[index |-> p, length |-> n, before |-> before, after |-> after]>>
                 \o execAll(rule, s, p + n)
            ELSE execAll(rule, s, p + n)
        replaced(p, n, before) == match(p, n, before, replacementFn(rule, before))
        matched(p, n) == replaced(p, n, substring(s, p, p + n))
        exec(p) == matched(p, matchLen(rule, s, p))
    IN IF hits = {} THEN <<>>
       ELSE exec(CHOOSE i \in hits : \A j \in hits : i <= j)

Reverse(q) == [i \in 1..Len(q) |-> q[Len(q) + 1 - i]]

splice(s, index, length, after) ==
    substring(s, 0, index) \o after \o substring(s, index + length, Len(s))

\* route.ts applyRegexRule: matches sorted by descending index, applied in that
\* order; each records its loc at the time it is applied.
RECURSIVE applyMatchesRoute(_, _, _)
applyMatchesRoute(st, rule, ms) ==
    IF ms = <<>> THEN st
    ELSE LET m == Head(ms)
             change == [change_id |-> IdC(st.counter),
                        type |-> rule.type,
                        before |-> m.before,
                        after |-> m.after,
                        reason |-> rule.reason,
                        severity |-> "recommended",
                        context_before |-> substring(st.revised, Max2(0, m.index - RuleCtxLen), m.index),
                        context_after |-> substring(st.revised, m.index + m.length,
                                            Min2(Len(st.revised), m.index + m.length + RuleCtxLen)),
                        loc |-> Loc(m.index, m.index + Len(m.after))]
         IN applyMatchesRoute([revised |-> splice(st.revised, m.index, m.length, m.after),
                               changes |-> Append(st.changes, change),
                               counter |-> st.counter + 1],
                              rule, Tail(ms))

applyRegexRuleRoute(st, rule) ==
    applyMatchesRoute(st, rule, Reverse(execAll(rule, st.revised, 0)))

RECURSIVE applyRulesRoute(_, _)
applyRulesRoute(st, rules) ==
    IF rules = <<>> THEN st
    ELSE applyRulesRoute(applyRegexRuleRoute(st, Head(rules)), Tail(rules))

\* route.ts applyCheapRules(text) -> [revisedText, changes]
applyCheapRulesRoute(text) ==
    LET result(st) == [revisedText |-> st.revised, changes |-> st.changes]
    IN result(applyRulesRoute([revised |-> text, changes |-> <<>>, counter |-> 1], RouteRules))

\* The applyRegexRule of the handler revision that shifts recorded indices:
\* as route.ts, and a replacement of non-zero delta first moves the loc of
\* every recorded change that starts after the match.
shiftLoc(c, m, delta) ==
    IF hasLoc(c) /\ c.loc.start >= m.index + Len(m.before)
    THEN [c EXCEPT !.loc = Loc(c.loc.start + delta, c.loc.end + delta)]
    ELSE IF hasLoc(c) /\ c.loc.start > m.index
         THEN [c EXCEPT !.loc = Loc(c.loc.start + delta, c.loc.end + delta)]
         ELSE c

RECURSIVE applyMatchesShift(_, _, _)
applyMatchesShift(st, rule, ms) ==
    IF ms = <<>> THEN st
    ELSE LET m == Head(ms)
             delta == Len(m.after) - Len(m.before)
             shifted == IF delta # 0
                        THEN [i \in 1..Len(st.changes) |-> shiftLoc(st.changes[i], m, delta)]
                        ELSE st.changes
             change == [change_id |-> IdC(st.counter),
                        type |-> rule.type,
                        before |-> m.before,
                        after |-> m.after,
                        reason |-> rule.reason,
                        severity |-> "recommended",
                        context_before |-> substring(st.revised, Max2(0, m.index - RuleCtxLen), m.index),
                        context_after |-> substring(st.revised, m.index + m.length,
                                            Min2(Len(st.revised), m.index + m.length + RuleCtxLen)),
                        loc |-> Loc(m.index, m.index + Len(m.after))]
         IN applyMatchesShift([revised |-> splice(st.revised, m.index, m.length, m.after),
                               changes |-> Append(shifted, change),
                               counter |-> st.counter + 1],
                              rule, Tail(ms))

applyRegexRuleShift(st, rule) ==
    applyMatchesShift(st, rule, Reverse(execAll(rule, st.revised, 0)))

RECURSIVE applyRulesShift(_, _)
applyRulesShift(st, rules) ==
    IF rules = <<>> THEN st
    ELSE applyRulesShift(applyRegexRuleShift(st, Head(rules)), Tail(rules))

applyCheapRulesShift(text) ==
    LET result(st) == [revisedText |-> st.revised, changes |-> st.changes]
    IN result(applyRulesShift([revised |-> text, changes |-> <<>>, counter |-> 1], RouteRules))

\* The fixed-point handler's applyRegexRule: contexts are taken while matching,
\* the matches are applied first to last at the indices found while matching,
\* and no loc is recorded.
RECURSIVE applyMatchesLoop(_, _, _, _)
applyMatchesLoop(st, rule, ms, scanned) ==
    IF ms = <<>> THEN st
    ELSE LET m == Head(ms)
             change == [change_id |-> IdC(st.counter),
                        type |-> rule.type,
                        before |-> m.before,
                        after |-> m.after,
                        reason |-> rule.reason,
                        severity |-> "recommended",
                        context_before |-> substring(scanned, Max2(0, m.index - DefaultCtxLen), m.index),
                        context_after |-> substring(scanned, m.index,
                                            Min2(Len(scanned), m.index + DefaultCtxLen)),
                        loc |-> NoLoc]
         IN applyMatchesLoop([revised |-> splice(st.revised, m.index, m.length, m.after),
                              changes |-> Append(st.changes, change),
                              counter |-> st.counter + 1],
                             rule, Tail(ms), scanned)

applyRegexRuleLoop(st, rule) ==
    applyMatchesLoop(st, rule, execAll(rule, st.revised, 0), st.revised)

RECURSIVE applyRulesLoop(_, _)
applyRulesLoop(st, rules) ==
    IF rules = <<>> THEN st
    ELSE applyRulesLoop(applyRegexRuleLoop(st, Head(rules)), Tail(rules))

applyCheapRulesLoop(text) ==
    LET result(st) == [revisedText |-> st.revised, changes |-> st.changes]
    IN result(applyRulesLoop([revised |-> text, changes |-> <<>>, counter |-> 1], LoopRules))

\* ------------------------------------------------------------ locator
\* Scores are kept as tenths: 0.5 is 5, 1.0 is 10.
CtxWindow == 40
RouteAnchorLen == 25
ScoreCap == 30
GapCtxLen == 15

keepAlnum(s) == SelectSeq(s, LAMBDA c : c \in AlnumChars)
normalizeForContext(s) == toLowerCase(keepAlnum(s))

\* The fixed-point handler's getContextScore: longest common suffix (isStart) or
\* prefix of the normalized strings, capped.
getContextScoreLoop(text, anchorStr, isStart) ==
    IF anchorStr = <<>> THEN 5
    ELSE LET a == normalizeForContext(anchorStr)
             t == normalizeForContext(text)
             lim == Min2(Min2(Len(a), Len(t)), ScoreCap)
             same(i) == IF isStart THEN sliceLast(a, i) = sliceLast(t, i)
                        ELSE sliceFirst(a, i) = sliceFirst(t, i)
             ok == {i \in 0..lim : \A j \in 1..i : same(j)}
         IN 10 * (CHOOSE i \in ok : \A j \in ok : i >= j)

\* route.ts getContextScore: all or nothing on the last / first 25 normalized
\* characters of the anchor.
getContextScoreRoute(text, anchorStr, isStart) ==
    IF anchorStr = <<>> THEN 5
    ELSE LET full == normalizeForContext(anchorStr)
             a == IF isStart THEN sliceLast(full, RouteAnchorLen) ELSE sliceFirst(full, RouteAnchorLen)
             t == normalizeForContext(text)
         IN IF a = <<>> THEN 5
            ELSE IF isStart THEN (IF endsWith(t, a) THEN 10 ELSE 0)
            ELSE (IF startsWith(t, a) THEN 10 ELSE 0)

contextScore(variant, text, anchorStr, isStart) ==
    IF variant = "loop" THEN getContextScoreLoop(text, anchorStr, isStart)
    ELSE getContextScoreRoute(text, anchorStr, isStart)

\* Candidates of one search string, left to right, from searchStart = 0.
RECURSIVE candidatesFrom(_, _, _, _, _, _, _)
candidatesFrom(hay, text, needle, cb, ca, from, variant) ==
    IF from >= Len(text) THEN <<>>
    ELSE LET idx == indexOf(hay, needle, from)
         IN IF idx = -1 THEN <<>>
            ELSE LET textBefore == substring(text, Max2(0, idx - CtxWindow), idx)
                     textAfter == substring(text, idx + Len(needle), idx + Len(needle) + CtxWindow)
                 IN <<[index |-> idx,
                       score |-> contextScore(variant, textBefore, cb, TRUE)
                                 + contextScore(variant, textAfter, ca, FALSE),
                       length |-> Len(needle)]>>
                    \o candidatesFrom(hay, text, needle, cb, ca, idx + 1, variant)

\* candidates.sort((a, b) => b.score - a.score)[0]: the sort is stable, so the
\* first of the best-scored candidates in list order.
bestCandidate(cands) ==
    LET best == {i \in 1..Len(cands) : \A j \in 1..Len(cands) : cands[i].score >= cands[j].score}
    IN cands[CHOOSE i \in best : \A j \in best : i <= j]

addBonus(cands, bonus) ==
    [i \in 1..Len(cands) |-> [cands[i] EXCEPT !.score = @ + bonus]]

\* The fixed-point handler's locateChangeInText; NoLoc stands for null.
locateChangeInTextLoop(text, change) ==
    IF change.type = "INSERT_AT_END"
    THEN Loc(Max2(0, Len(text) - Len(change.after)), Len(text))
    ELSE LET searchText == trim(change.after)
         IN IF searchText = <<>>
            THEN LET cb == trim(change.context_before)
                     ca == trim(change.context_after)
                     searchContext == trim(sliceLast(cb, GapCtxLen) \o sliceFirst(ca, GapCtxLen))
                     idx == indexOf(text, searchContext, 0)
                     gapIdx == idx + Len(trimEnd(sliceLast(cb, GapCtxLen)))
                 IN IF cb = <<>> /\ ca = <<>> THEN NoLoc
                    ELSE IF searchContext = <<>> \/ Len(text) = 0 \/ idx = -1 THEN NoLoc
                    ELSE Loc(gapIdx, gapIdx)
            ELSE LET span(c) == Loc(c.index, c.index + c.length)
                     pick(cands) == IF cands = <<>> THEN NoLoc ELSE span(bestCandidate(cands))
                 IN pick(addBonus(candidatesFrom(text, text, searchText,
                                                 change.context_before, change.context_after,
                                                 0, "loop"), 10))

\* route.ts normalizeForMatching: whitespace runs to one space, dashes to "-",
\* trimmed (the two quote replacements map a character to itself).
RECURSIVE collapseSpaces(_)
collapseSpaces(s) ==
    IF s = <<>> THEN <<>>
    ELSE IF isSpace(s[1])
         THEN <<" ">> \o collapseSpaces(trimStart(s))
         ELSE <<s[1]>> \o collapseSpaces(Tail(s))

normalizeForMatching(s) ==
    LET hyphens(t) == [i \in 1..Len(t) |-> IF t[i] = EM THEN "-" ELSE t[i]]
    IN trim(hyphens(collapseSpaces(s)))

\* The distinct fuzzy variants of searchText, in the order of the Set.
fuzzyVariants(searchText) ==
    LET distinct(n, l) ==
            (IF n # <<>> /\ n # searchText THEN <<n>> ELSE <<>>)
            \o (IF l # <<>> /\ l # searchText /\ l # n THEN <<l>> ELSE <<>>)
    IN distinct(normalizeForMatching(searchText), toLowerCase(searchText))

RECURSIVE fuzzyCandidates(_, _, _, _)
fuzzyCandidates(text, variants, cb, ca) ==
    IF variants = <<>> THEN <<>>
    ELSE addBonus(candidatesFrom(toLowerCase(text), text, toLowerCase(Head(variants)),
                                 cb, ca, 0, "route"), 8)
         \o fuzzyCandidates(text, Tail(variants), cb, ca)

\* route.ts locateChangeInText; NoLoc stands for null.
locateChangeInTextRoute(text, change) ==
    LET span(c) == Loc(c.index, c.index + c.length)
        pick(cands) == IF cands = <<>> THEN NoLoc ELSE span(bestCandidate(cands))
        search(searchText, cb, ca, exact) ==
            LET ideal == {i \in 1..Len(exact) : exact[i].score >= 30}
            IN IF ideal # {} THEN span(exact[CHOOSE i \in ideal : \A j \in ideal : i <= j])
               ELSE pick(exact \o fuzzyCandidates(text, fuzzyVariants(searchText), cb, ca))
        located(searchText, cb, ca) ==
            IF searchText = <<>> THEN NoLoc
            ELSE search(searchText, cb, ca,
                        addBonus(candidatesFrom(text, text, searchText, cb, ca, 0, "route"), 10))
    IN located(trim(change.after), trim(change.context_before), trim(change.context_after))

\* ------------------------------------------------------------ text alignment
\* diff-match-patch: a diff is a sequence of [op, text] with op "eq", "ins", "del".
Op(o, t) == [op |-> o, text |-> t]

commonPrefix(a, b) ==
    LET ok == {i \in 0..Min2(Len(a), Len(b)) : sliceFirst(a, i) = sliceFirst(b, i)}
    IN CHOOSE i \in ok : \A j \in ok : i >= j

commonSuffix(a, b) ==
    LET ok == {i \in 0..Min2(Len(a), Len(b)) : sliceLast(a, i) = sliceLast(b, i)}
    IN CHOOSE i \in ok : \A j \in ok : i >= j

dropFirst(s, n) == substring(s, n, Len(s))
dropLast(s, n) == substring(s, 0, Len(s) - n)

editCost(d) == Cardinality({i \in 1..Len(d) : d[i].op # "eq"})

\* A shortest edit script, one character per record (the result of the bisect
\* search before merging); deletions are listed before insertions.
RECURSIVE shortestScript(_, _)
shortestScript(a, b) ==
    IF a = <<>> THEN [i \in 1..Len(b) |-> Op("ins", <<b[i]>>)]
    ELSE IF b = <<>> THEN [i \in 1..Len(a) |-> Op("del", <<a[i]>>)]
    ELSE IF a[1] = b[1] THEN <<Op("eq", <<a[1]>>)>> \o shortestScript(Tail(a), Tail(b))
    ELSE LET d1 == <<Op("del", <<a[1]>>)>> \o shortestScript(Tail(a), b)
             d2 == <<Op("ins", <<b[1]>>)>> \o shortestScript(a, Tail(b))
         IN IF editCost(d1) <= editCost(d2) THEN d1 ELSE d2

\* diff_compute_ on texts without a common prefix or suffix.
diff_compute(text1, text2) ==
    LET long == IF Len(text1) > Len(text2) THEN text1 ELSE text2
        short == IF Len(text1) > Len(text2) THEN text2 ELSE text1
        i == indexOf(long, short, 0)
        op == IF Len(text1) > Len(text2) THEN "del" ELSE "ins"
    IN IF text1 = <<>> THEN <<Op("ins", text2)>>
       ELSE IF text2 = <<>> THEN <<Op("del", text1)>>
       ELSE IF i # -1
            THEN <<Op(op, substring(long, 0, i)), Op("eq", short),
                   Op(op, substring(long, i + Len(short), Len(long)))>>
       ELSE IF Len(short) = 1 THEN <<Op("del", text1), Op("ins", text2)>>
       ELSE shortestScript(text1, text2)

pushEq(out, t) ==
    IF t = <<>> THEN out
    ELSE IF out # <<>> /\ out[Len(out)].op = "eq"
         THEN [out EXCEPT ![Len(out)].text = @ \o t]
         ELSE Append(out, Op("eq", t))

pushEdit(out, o, t) == IF t = <<>> THEN out ELSE Append(out, Op(o, t))

\* First pass of diff_cleanupMerge: on reaching an equality, the edits before
\* it become one deletion and one insertion with their common prefix and
\* suffix moved into the neighbouring equalities; adjacent equalities merge.
flushEdits(acc, eqText) ==
    LET both == acc.del # <<>> /\ acc.ins # <<>>
        emit(out1, ins1, del1, cs) ==
            [out |-> pushEq(pushEdit(pushEdit(out1, "del", dropLast(del1, cs)),
                                     "ins", dropLast(ins1, cs)),
                            sliceLast(ins1, cs) \o eqText),
             del |-> <<>>, ins |-> <<>>]
        factorSuffix(out1, ins1, del1) ==
            emit(out1, ins1, del1, IF both THEN commonSuffix(ins1, del1) ELSE 0)
        factorPrefix(cp) ==
            factorSuffix(pushEq(acc.out, sliceFirst(acc.ins, cp)),
                         dropFirst(acc.ins, cp), dropFirst(acc.del, cp))
    IN factorPrefix(IF both THEN commonPrefix(acc.ins, acc.del) ELSE 0)

RECURSIVE mergeRuns(_, _)
mergeRuns(acc, diffs) ==
    IF diffs = <<>> THEN flushEdits(acc, <<>>).out
    ELSE LET d == Head(diffs)
         IN CASE d.op = "eq" -> mergeRuns(flushEdits(acc, d.text), Tail(diffs))
              [] d.op = "del" -> mergeRuns([acc EXCEPT !.del = @ \o d.text], Tail(diffs))
              [] d.op = "ins" -> mergeRuns([acc EXCEPT !.ins = @ \o d.text], Tail(diffs))

removeAt(q, i) == SubSeq(q, 1, i - 1) \o SubSeq(q, i + 1, Len(q))

\* Second pass of diff_cleanupMerge: a single edit between two equalities is
\* slid over the equality it ends with, or over the one it starts with.
\* p is the 1-based position of the edit looked at.
RECURSIVE shiftEdits(_, _, _)
shiftEdits(diffs, p, changed) ==
    IF p >= Len(diffs) THEN [diffs |-> diffs, changed |-> changed]
    ELSE IF diffs[p - 1].op = "eq" /\ diffs[p + 1].op = "eq"
         THEN LET prev == diffs[p - 1].text
                  edit == diffs[p].text
                  next == diffs[p + 1].text
                  slid == IF endsWith(edit, prev)
                          THEN removeAt([diffs EXCEPT
                                   ![p].text = prev \o dropLast(edit, Len(prev)),
                                   ![p + 1].text = prev \o next], p - 1)
                          ELSE removeAt([diffs EXCEPT
                                   ![p - 1].text = prev \o next,
                                   ![p].text = dropFirst(edit, Len(next)) \o next], p + 1)
              IN IF endsWith(edit, prev) \/ startsWith(edit, next)
                 THEN shiftEdits(slid, p + 1, TRUE)
                 ELSE shiftEdits(diffs, p + 1, changed)
         ELSE shiftEdits(diffs, p + 1, changed)

RECURSIVE diff_cleanupMerge(_)
diff_cleanupMerge(diffs) ==
    LET again(merged, shifted) ==
            IF shifted.changed THEN diff_cleanupMerge(shifted.diffs) ELSE merged
        secondPass(merged) == again(merged, shiftEdits(merged, 2, FALSE))
    IN secondPass(mergeRuns([out |-> <<>>, del |-> <<>>, ins |-> <<>>], diffs))

diff_main(text1, text2) ==
    IF text1 = text2 THEN (IF text1 = <<>> THEN <<>> ELSE <<Op("eq", text1)>>)
    ELSE LET middle(cp, a1, b1, cs) ==
                 diff_cleanupMerge(<<Op("eq", sliceFirst(text1, cp))>>
                                   \o diff_compute(dropLast(a1, cs), dropLast(b1, cs))
                                   \o <<Op("eq", sliceLast(a1, cs))>>)
             afterPrefix(cp, a1, b1) == middle(cp, a1, b1, commonSuffix(a1, b1))
             fromPrefix(cp) == afterPrefix(cp, dropFirst(text1, cp), dropFirst(text2, cp))
         IN fromPrefix(commonPrefix(text1, text2))

\* diff_xIndex: the offset in text2 of offset loc of text1.
RECURSIVE xIndexFrom(_, _, _, _, _)
xIndexFrom(diffs, loc, x, last1, last2) ==
    IF x > Len(diffs) THEN last2 + (loc - last1)
    ELSE LET chars1 == last1 + (IF diffs[x].op # "ins" THEN Len(diffs[x].text) ELSE 0)
             chars2 == last2 + (IF diffs[x].op # "del" THEN Len(diffs[x].text) ELSE 0)
         IN IF chars1 > loc
            THEN (IF diffs[x].op = "del" THEN last2 ELSE last2 + (loc - last1))
            ELSE xIndexFrom(diffs, loc, x + 1, chars1, chars2)

diff_xIndex(diffs, loc) == xIndexFrom(diffs, loc, 1, 0, 0)

projectFromKeep(start, end, outcome) ==
    IF outcome.threw THEN NoLoc
    ELSE Loc(diff_xIndex(outcome.diffs, start), diff_xIndex(outcome.diffs, end))

\* The body of projectCoordinates once diff_main has returned its diffs or
\* thrown; NoLoc stands for null.
projectFrom(start, end, outcome) ==
    LET range(locStart, locEnd) ==
            IF locStart = locEnd /\ start # end THEN NoLoc ELSE Loc(locStart, locEnd)
        project(diffs) == range(diff_xIndex(diffs, start), diff_xIndex(diffs, end))
    IN IF outcome.threw THEN NoLoc ELSE project(outcome.diffs)

\* projectCoordinates on two strings, for which diff_main returns.
projectCoordinates(start, end, oldText, newText) ==
    projectFrom(start, end, [threw |-> FALSE, diffs |-> diff_main(oldText, newText)])

\* ------------------------------------------------------------ diff_cleanupSemantic
insertAt(q, i, x) == SubSeq(q, 1, i - 1) \o <<x>> \o SubSeq(q, i, Len(q))

\* Elimination of equalities no longer than the edits on both of their sides.
\* st.p is the 1-based pointer, st.eqs the stack of equality positions,
\* st.last the last equality (<<>> for null).
RECURSIVE eliminateEqualities(_)
eliminateEqualities(st) ==
    IF st.p > Len(st.diffs) THEN st
    ELSE LET d == st.diffs[st.p]
         IN IF d.op = "eq"
            THEN eliminateEqualities([st EXCEPT !.eqs = Append(@, st.p),
                                        !.i1 = st.i2, !.d1 = st.d2, !.i2 = 0, !.d2 = 0,
                                        !.last = d.text, !.p = @ + 1])
            ELSE LET i2 == st.i2 + (IF d.op = "ins" THEN Len(d.text) ELSE 0)
                     d2 == st.d2 + (IF d.op = "del" THEN Len(d.text) ELSE 0)
                     e == st.eqs[Len(st.eqs)]
                     popped == IF Len(st.eqs) >= 2 THEN SubSeq(st.eqs, 1, Len(st.eqs) - 2) ELSE <<>>
                 IN IF /\ st.last # <<>>
                       /\ Len(st.last) <= Max2(st.i1, st.d1)
                       /\ Len(st.last) <= Max2(i2, d2)
                    THEN eliminateEqualities(
                           [diffs |-> [insertAt(st.diffs, e, Op("del", st.last)) EXCEPT ![e + 1].op = "ins"],
                            eqs |-> popped,
                            p |-> IF popped = <<>> THEN 1 ELSE popped[Len(popped)] + 1,
                            i1 |-> 0, d1 |-> 0, i2 |-> 0, d2 |-> 0,
                            last |-> <<>>, changes |-> TRUE])
                    ELSE eliminateEqualities([st EXCEPT !.i2 = i2, !.d2 = d2, !.p = @ + 1])

\* diff_cleanupSemanticScore_ (the alphabet of the model has no line breaks).
semanticScore(one, two) ==
    IF one = <<>> \/ two = <<>> THEN 6
    ELSE LET char1 == one[Len(one)]
             char2 == two[1]
             nonAlnum1 == char1 \notin AlnumChars
             nonAlnum2 == char2 \notin AlnumChars
             white1 == nonAlnum1 /\ isSpace(char1)
             white2 == nonAlnum2 /\ isSpace(char2)
         IN IF nonAlnum1 /\ ~white1 /\ white2 THEN 3
            ELSE IF white1 \/ white2 THEN 2
            ELSE IF nonAlnum1 \/ nonAlnum2 THEN 1
            ELSE 0

boundaryScore(t) == semanticScore(t.e1, t.edit) + semanticScore(t.edit, t.e2)

\* Stepping the edit right one character at a time, keeping the last best fit.
RECURSIVE bestFit(_, _)
bestFit(cur, best) ==
    IF cur.e2 # <<>> /\ cur.edit[1] = cur.e2[1]
    THEN LET nxt == [e1 |-> Append(cur.e1, cur.edit[1]),
                     edit |-> Append(Tail(cur.edit), cur.e2[1]),
                     e2 |-> Tail(cur.e2)]
         IN bestFit(nxt, IF boundaryScore(nxt) >= boundaryScore(best) THEN nxt ELSE best)
    ELSE best

\* diff_cleanupSemanticLossless; p is the 1-based position looked at.
RECURSIVE cleanupSemanticLossless(_, _)
cleanupSemanticLossless(diffs, p) ==
    IF p >= Len(diffs) THEN diffs
    ELSE IF diffs[p - 1].op = "eq" /\ diffs[p + 1].op = "eq"
         THEN LET eq1 == diffs[p - 1].text
                  ed == diffs[p].text
                  eq2 == diffs[p + 1].text
                  leftmost(off) == [e1 |-> dropLast(eq1, off),
                                    edit |-> sliceLast(ed, off) \o dropLast(ed, off),
                                    e2 |-> sliceLast(ed, off) \o eq2]
                  fit(left) == bestFit(left, left)
                  cutEnd(best, set) == IF best.e2 = <<>> THEN removeAt(set, p + 1) ELSE set
                  cutStart(best, set) == IF best.e1 = <<>> THEN removeAt(set, p - 1) ELSE set
                  back(best) == (IF best.e1 = <<>> THEN 1 ELSE 0) + (IF best.e2 = <<>> THEN 1 ELSE 0)
                  apply(best) ==
                      IF eq1 # best.e1
                      THEN cleanupSemanticLossless(
                               cutStart(best, cutEnd(best,
                                   [diffs EXCEPT ![p - 1].text = best.e1, ![p].text = best.edit,
                                                 ![p + 1].text = best.e2])),
                               p - back(best) + 1)
                      ELSE cleanupSemanticLossless(diffs, p + 1)
              IN apply(fit(leftmost(commonSuffix(eq1, ed))))
         ELSE cleanupSemanticLossless(diffs, p + 1)

commonOverlap(a, b) ==
    LET ok == {i \in 0..Min2(Len(a), Len(b)) : sliceLast(a, i) = sliceFirst(b, i)}
    IN CHOOSE i \in ok : \A j \in ok : i >= j

\* Overlaps between a deletion and the insertion after it become equalities.
\* p is the 1-based position of the insertion looked at.
RECURSIVE splitOverlaps(_, _)
splitOverlaps(diffs, p) ==
    IF p > Len(diffs) THEN diffs
    ELSE IF diffs[p - 1].op = "del" /\ diffs[p].op = "ins"
         THEN LET deletion == diffs[p - 1].text
                  insertion == diffs[p].text
                  split(o1, o2) ==
                 IF o1 >= o2
                 THEN IF 2 * o1 >= Len(deletion) \/ 2 * o1 >= Len(insertion)
                      THEN splitOverlaps(
                             insertAt([diffs EXCEPT ![p - 1].text = dropLast(deletion, o1),
                                                    ![p].text = dropFirst(insertion, o1)],
                                      p, Op("eq", sliceFirst(insertion, o1))), p + 3)
                      ELSE splitOverlaps(diffs, p + 2)
                 ELSE IF 2 * o2 >= Len(deletion) \/ 2 * o2 >= Len(insertion)
                      THEN splitOverlaps(
                             insertAt([diffs EXCEPT ![p - 1] = Op("ins", dropLast(insertion, o2)),
                                                    ![p] = Op("del", dropFirst(deletion, o2))],
                                      p, Op("eq", sliceFirst(deletion, o2))), p + 3)
                      ELSE splitOverlaps(diffs, p + 2)
              IN split(commonOverlap(deletion, insertion), commonOverlap(insertion, deletion))
         ELSE splitOverlaps(diffs, p + 1)

diff_cleanupSemantic(diffs) ==
    LET merged(st) == IF st.changes THEN diff_cleanupMerge(st.diffs) ELSE st.diffs
    IN splitOverlaps(
           cleanupSemanticLossless(
               merged(eliminateEqualities([diffs |-> diffs, eqs |-> <<>>, p |-> 1,
                                           i1 |-> 0, d1 |-> 0, i2 |-> 0, d2 |-> 0,
                                           last |-> <<>>, changes |-> FALSE])), 2), 2)

\* ------------------------------------------------------------ diff fallback
MissingCtxLen == 20
ReasonKeyLen == 50

\* Covered as soon as any existing change has a loc.
isCoveredByAny(start, end, existingChanges) ==
    \/ start >= end
    \/ \E i \in 1..Len(existingChanges) : hasLoc(existingChanges[i])

isCovered(start, end, existingChanges) ==
    \/ start >= end
    \/ \E i \in 1..Len(existingChanges) :
         /\ hasLoc(existingChanges[i])
         /\ start < existingChanges[i].loc.end
         /\ end > existingChanges[i].loc.start

\* The forEach over the diffs: pos is the position in revisedText, n the
\* running autoCount.
RECURSIVE missingFrom(_, _, _, _, _)
missingFrom(diffs, pos, n, revisedText, existingChanges) ==
    IF diffs = <<>> THEN <<>>
    ELSE LET d == Head(diffs)
             end == pos + Len(d.text)
         IN CASE d.op = "eq" -> missingFrom(Tail(diffs), end, n, revisedText, existingChanges)
              [] d.op = "del" -> missingFrom(Tail(diffs), pos, n, revisedText, existingChanges)
              [] d.op = "ins" ->
                   IF ~isCovered(pos, end, existingChanges)
                   THEN <<[change_id |-> <<"auto", n>>,
                           type |-> "other",
                           before |-> <<>>,
                           after |-> d.text,
                           reason |-> ReasonAuto,
                           severity |-> "recommended",
                           context_before |-> substring(revisedText, Max2(0, pos - MissingCtxLen), pos),
                           context_after |-> substring(revisedText, end,
                                               Min2(Len(revisedText), end + MissingCtxLen)),
                           loc |-> Loc(pos, end)]>>
                        \o missingFrom(Tail(diffs), end, n + 1, revisedText, existingChanges)
                   ELSE missingFrom(Tail(diffs), end, n, revisedText, existingChanges)

computeMissingChanges(originalText, revisedText, existingChanges) ==
    missingFrom(diff_cleanupSemantic(diff_main(originalText, revisedText)),
                0, 1, revisedText, existingChanges)

\* route.ts recalculateAllLocations
recalculateAllLocations(text, changes) ==
    [i \in 1..Len(changes) |->
        IF isBlank(changes[i].after) THEN changes[i]
        ELSE [changes[i] EXCEPT !.loc = locateChangeInTextRoute(text, changes[i])]]

normReason(r) == sliceFirst(trim(collapseSpaces(toLowerCase(r))), ReasonKeyLen)
dedupeKey(c) == <<c.type, c.before, c.after, normReason(c.reason)>>

\* filter keeping the elements whose key no earlier element has
keepFirst(q, keys) ==
    LET keep == {i \in 1..Len(q) : \A j \in 1..(i - 1) : keys[j] # keys[i]}
        F[i \in 0..Len(q)] ==
            IF i = 0 THEN <<>>
            ELSE IF i \in keep THEN Append(F[i - 1], q[i]) ELSE F[i - 1]
    IN F[Len(q)]

deduplicateChanges(changes) ==
    keepFirst(changes, [i \in 1..Len(changes) |-> dedupeKey(changes[i])])

\* Array.prototype.sort with the comparator (a.loc?.start ?? 0) - (b.loc?.start ?? 0);
\* the sort is stable.
sortKey(c) == IF hasLoc(c) THEN c.loc.start ELSE 0

RECURSIVE insertSorted(_, _)
insertSorted(sorted, c) ==
    IF sorted = <<>> THEN <<c>>
    ELSE IF sortKey(Head(sorted)) <= sortKey(c)
         THEN <<Head(sorted)>> \o insertSorted(Tail(sorted), c)
         ELSE <<c>> \o sorted

RECURSIVE sortByStart(_)
sortByStart(q) ==
    IF q = <<>> THEN <<>>
    ELSE insertSorted(sortByStart(SubSeq(q, 1, Len(q) - 1)), q[Len(q)])

\* The list with the ids it came with.
keepIds(q) == q

renumber(q) == [i \in 1..Len(q) |-> [q[i] EXCEPT !.change_id = IdC(i)]]

\* The fixed-point handler's final re-indexing and cleanup.
finalCleanup(allChanges) ==
    LET located == SelectSeq(allChanges, hasLoc)
    IN renumber(keepFirst(located, [i \in 1..Len(located) |-> located[i].loc]))

\* ------------------------------------------------------------ cache key
\* charCodeAt for the code units used here.
charCode(c) ==
    CASE c \in Lowers -> 96 + (CHOOSE i \in 1..Len(LowerSeq) : LowerSeq[i] = c)
      [] c \in Uppers -> 64 + (CHOOSE i \in 1..Len(UpperSeq) : UpperSeq[i] = c)
      [] c = "0" -> 48 [] c = "1" -> 49 [] c = "2" -> 50 [] c = "3" -> 51 [] c = "4" -> 52
      [] c = "5" -> 53 [] c = "6" -> 54 [] c = "7" -> 55 [] c = "8" -> 56 [] c = "9" -> 57
      [] c = LF -> 10 [] c = CR -> 13
      [] c = " " -> 32 [] c = "!" -> 33 [] c = DQ -> 34 [] c = "," -> 44 [] c = "-" -> 45
      [] c = "." -> 46 [] c = "_" -> 95
      [] c = EM -> 8212 [] c = LQ -> 8220 [] c = RQ -> 8221
      [] OTHER -> 63

\* hash = (hash << 5) - hash + char, kept to 32 bits by hash & hash. The 32-bit
\* value is held as two 16-bit halves <<high, low>>.
HalfWord == 65536
HashShift == 32

hashStep(h, ch) ==
    LET low == (HashShift - 1) * h[2] + ch
        high == (HashShift - 1) * h[1] + (low \div HalfWord)
    IN <<high % HalfWord, low % HalfWord>>

RECURSIVE hashFrom(_, _)
hashFrom(h, s) ==
    IF s = <<>> THEN h ELSE hashFrom(hashStep(h, charCode(s[1])), Tail(s))

Mode == "real"
Provider == "gemini"
PROMPT_VERSION == "v1.1"

\* replace(/\r\n/g, '\n')
RECURSIVE replaceCRLF(_)
replaceCRLF(s) ==
    IF s = <<>> THEN <<>>
    ELSE IF Len(s) >= 2 /\ s[1] = CR /\ s[2] = LF THEN <<LF>> \o replaceCRLF(SubSeq(s, 3, Len(s)))
    ELSE <<s[1]>> \o replaceCRLF(Tail(s))

generateCacheKey(text, mode, provider) ==
    <<hashFrom(<<0, 0>>, replaceCRLF(trim(text))), mode, provider, PROMPT_VERSION>>

\* ------------------------------------------------------------ the passes
MAX_ITERATIONS == 3

\* parseResponse keeps the changes whose before and after differ.
parseChanges(changes) == SelectSeq(changes, LAMBDA c : c.before # c.after)

projectAll(changes, oldText, newText) ==
    [i \in 1..Len(changes) |->
        IF hasLoc(changes[i])
        THEN [changes[i] EXCEPT !.loc = projectCoordinates(changes[i].loc.start,
                                            changes[i].loc.end, oldText, newText)]
        ELSE changes[i]]

locateAllLoop(text, changes) ==
    [i \in 1..Len(changes) |->
        [changes[i] EXCEPT !.loc = locateChangeInTextLoop(text, changes[i])]]

markSuffix(c, textAfterRules, textAfterLLM) ==
    IF /\ startsWith(textAfterLLM, textAfterRules)
       /\ Len(textAfterLLM) > Len(textAfterRules)
       /\ isBlank(c.context_after)
       /\ endsWith(textAfterLLM, c.after)
    THEN [c EXCEPT !.type = "INSERT_AT_END"]
    ELSE c

\* TRACK LOCATIONS, steps A to D of one pass of the fixed-point loop.
trackLocations(allChanges, textAtStartOfPass, passRuleResult, passResult) ==
    LET textAfterRules == passRuleResult.revisedText
        textAfterLLM == passResult.revised_text
        a == IF textAfterRules # textAtStartOfPass
             THEN projectAll(allChanges, textAtStartOfPass, textAfterRules)
             ELSE allChanges
        c(b) == IF textAfterLLM # textAfterRules
                THEN projectAll(b, textAfterRules, textAfterLLM)
                ELSE b
        llm == [i \in 1..Len(passResult.changes) |->
                   markSuffix(passResult.changes[i], textAfterRules, textAfterLLM)]
    IN c(a \o locateAllLoop(textAfterRules, passRuleResult.changes))
       \o locateAllLoop(textAfterLLM, llm)

\* ------------------------------------------------------------ requests and the LLM
MAX_TEXT_LENGTH == 4000
CACHE_TTL_MS == 86400000
HalfMinuteSeconds == 30
MinuteSeconds == 60
DaySeconds == 86400
FirstDaySeconds == 90000
ClientTimeoutSeconds == 30
GLOBAL_RPM == 9
USER_RPD == 20
USER_30S == 1

\* The texts clients post.
BodySpaces == <<"a", " ", " ", "b">>
BodyList == <<"a", " ", "b", " ", "c">>
BodyTail == <<"s", "o", " ", "I", " ", "s", "a", "t", " ", "o", "n", " ", "a", " ", "m", "a", "t", " ", ".">>
BodyTypo == <<"a", " ", "t", "e", "h">>
BodyHi == <<"h", "i">>
BodyGone == <<"x", " ", "t", "e", "h">>
LongBody(n) == [i \in 1..n |-> "a"]
Bodies == {<<>>, BodySpaces, BodyList, BodyTail, BodyTypo, BodyHi, LongBody(MAX_TEXT_LENGTH + 1)}

Resp(text, changes) == [revised_text |-> text, changes |-> changes]

\* A change as the LLM reports it: no loc, an id of its own.
LLMChange(k, type, before, after, reason, context_before, context_after) ==
    [change_id |-> <<"llm", k>>, type |-> type, before |-> before, after |-> after,
     reason |-> reason, severity |-> "required",
     context_before |-> context_before, context_after |-> context_after, loc |-> NoLoc]

TextAB == <<"a", " ", "b">>
TextAThe == <<"a", " ", "t", "h", "e">>
TextXThe == <<"x", " ", "t", "h", "e">>
TextMat == <<"s", "o", " ", "I", " ", "s", "a", "t", " ", "o", "n", " ", "a", " ", "m", "a", "t">>

Echo(input) == Resp(input, <<>>)

\* An exclamation mark appended to the input, and reported.
Exclaim(input) ==
    Resp(input \o <<"!">>,
         <<LLMChange(1, "punctuation", <<>>, <<"!">>, <<"E", "n", "d">>, input, <<>>)>>)

\* The answers the LLM may give for a given input.
LLMMenu(input) ==
    CASE input = TextAB ->
           \* unchanged, or the double space restored
           {Echo(input), Resp(BodySpaces, <<>>)}
      [] input \in {BodyHi, BodyHi \o <<"!">>, BodyHi \o <<"!", "!">>} ->
           \* never the input itself
           {Exclaim(input)}
      [] input = TextAThe ->
           \* the first letter capitalised
           {Resp(<<"A", " ", "t", "h", "e">>,
                 <<LLMChange(1, "capitalization", <<"a">>, <<"A">>,
                      <<"C", "a", "p">>, <<>>, <<" ", "t", "h", "e">>)>>)}
      [] input = BodyList ->
           \* unchanged; two commas inserted and not reported; three changes
           \* reported of which one is not in the text and two describe one span
           {Echo(input),
            Resp(<<"a", ",", " ", "b", ",", " ", "c">>, <<>>),
            Resp(input,
                 <<LLMChange(1, "other", <<"y", "y">>, <<"z", "z">>,
                      <<"W", "o", "r", "d">>, <<"a", " ">>, <<"c">>),
                   LLMChange(2, "capitalization", <<"B">>, <<"b">>,
                      <<"C", "a", "s", "e">>, <<"a", " ">>, <<" ", "c">>),
                   LLMChange(3, "spelling", <<"b", "b">>, <<"b">>,
                      <<"S", "p", "e", "l", "l">>, <<"a", " ">>, <<" ", "c">>)>>)}
      [] input = TextXThe ->
           \* the word the rules corrected is cut
           {Resp(<<"x">>,
                 <<LLMChange(1, "other", <<" ", "t", "h", "e">>, <<>>,
                      <<"C", "u", "t">>, <<"x">>, <<>>)>>)}
      [] input = BodyTail ->
           \* the trailing " ." deleted
           {Resp(TextMat,
                 <<LLMChange(1, "punctuation", <<" ", ".">>, <<>>,
                      <<"S", "t", "o", "p">>, TextMat, <<>>)>>)}
      [] OTHER -> {Echo(input)}

\* ------------------------------------------------------------ the POST handler
NumRequests == 3
Requests == 1..NumRequests

VARIABLES
    variant,          \* which revision of the handler serves: "fixedpoint" or "single"
    body,             \* the text the clients post
    anonIds,          \* per request: the anon_id cookie it carries
    cacheBypass,      \* per request: whether it carries the header x-cache-bypass: 1
    cmsAuth,          \* per request: whether it carries the cookie cms_auth=1
    passwordGate,     \* whether process.env.DISABLE_PASSWORD_GATE is other than '1'
    maintenance,      \* whether process.env.MAINTENANCE_MODE is '1'
    apiKey,           \* whether process.env.GEMINI_API_KEY is defined
    now,              \* Math.floor(Date.now() / 1000)
    req,              \* per request: where its handler stands, its response, the page's view
    promises,         \* the processingPromises created so far, with the closure's state
    cache,            \* Map cacheKey -> {data, timestamp}
    pendingRequests,  \* Map cacheKey -> index of the processingPromise
    memoryCache,      \* the limiter's Map key -> {count, expires}
    microtasks,       \* continuations ready to run, first in first out
    probe             \* a function under test with its input and output

handlerVars == <<variant, body, anonIds, cacheBypass, cmsAuth, passwordGate, maintenance, apiKey, now, req, promises, cache, pendingRequests,
                 memoryCache, microtasks>>
vars == <<variant, body, anonIds, cacheBypass, cmsAuth, passwordGate, maintenance, apiKey, now, req, promises, cache, pendingRequests,
          memoryCache, microtasks, probe>>

NoData == [revised_text |-> <<>>, changes |-> <<>>]
NoRuleResult == [revisedText |-> <<>>, changes |-> <<>>]
NoResponse == [status |-> 0, data |-> NoData, via |-> "none", from |-> 0,
               error |-> "none", retryAfter |-> 0]
NoThrown == [status |-> 0, error |-> "none", retryAfter |-> 0]
NoProbe == [fn |-> "none"]

\* The environment in which computeMissingChanges throws whenever it is called.
DetectorFault == [fn |-> "computeMissingChanges throws"]

\* The try block around computeMissingChanges: what it returned, or that it threw.
diffFallback(originalText, revisedText, located) ==
    IF probe = DetectorFault THEN [threw |-> TRUE, missing |-> <<>>]
    ELSE [threw |-> FALSE,
          missing |-> computeMissingChanges(originalText, revisedText, located)]

withMissingLost(located, outcome) ==
    IF outcome.threw THEN <<>> ELSE located \o outcome.missing

\* located = [...located, ...missing], skipped when the detector threw.
withMissing(located, outcome) ==
    IF outcome.threw THEN located ELSE located \o outcome.missing

\* route.ts processAndFinalizeChanges
processAndFinalizeChanges(changes, originalText, revisedText) ==
    LET finalize(located) ==
            renumber(sortByStart(deduplicateChanges(
                withMissing(located, diffFallback(originalText, revisedText, located)))))
    IN finalize(recalculateAllLocations(revisedText, changes))
NewRequest == [pc |-> "new", awaits |-> 0, resp |-> NoResponse, page |-> "idle", sentAt |-> 0]

mapSet(m, k, v) == [x \in DOMAIN m \cup {k} |-> IF x = k THEN v ELSE m[x]]
mapKeep(m, k) == m
mapDelete(m, k) == [x \in DOMAIN m \ {k} |-> m[x]]
mapGet(m, k, default) == IF k \in DOMAIN m THEN m[k] ELSE default

cacheKey == generateCacheKey(body, Mode, Provider)

invalidTextStrict(text) == text = <<>> \/ Len(text) >= MAX_TEXT_LENGTH

\* !text || text.length > MAX_TEXT_LENGTH
invalidText(text) == text = <<>> \/ Len(text) > MAX_TEXT_LENGTH

\* checkMem: an expired entry starts over, the call is counted, and refused
\* above the limit with the seconds left until the entry expires.
checkMem(mc, key, limit, ttl, t) ==
    LET count(entry) ==
            [mc |-> mapSet(mc, key, [entry EXCEPT !.count = @ + 1]),
             ok |-> entry.count + 1 <= limit,
             retryAfterSeconds |-> entry.expires - t]
        renew(entry) == count(IF t > entry.expires
                              THEN [count |-> 0, expires |-> t + ttl] ELSE entry)
    IN renew(mapGet(mc, key, [count |-> 0, expires |-> t + ttl]))

\* The calendar date in RATE_TZ as a day number. Time 0 is the local midnight
\* that begins the day on which daylight saving time ends in RATE_TZ, a day
\* of 25 hours; the days after it have 24.
dateStr(t) ==
    IF t < FirstDaySeconds THEN 0 ELSE 1 + ((t - FirstDaySeconds) \div DaySeconds)

\* consumeExpensiveCall, in-memory branch at time t: the first refusal returns.
consumeExpensiveCall(mc, anonId, t) ==
    LET r1 == checkMem(mc, <<"gm", t \div MinuteSeconds>>, GLOBAL_RPM, MinuteSeconds, t)
        r2 == checkMem(r1.mc, <<"u30", anonId, t \div HalfMinuteSeconds>>, USER_30S,
                       HalfMinuteSeconds, t)
        r3 == checkMem(r2.mc, <<"ud", anonId, dateStr(t)>>, USER_RPD, DaySeconds, t)
    IN IF ~r1.ok THEN r1
       ELSE IF ~r2.ok THEN r2
       ELSE r3

\* The closure of a processingPromise at its creation: it has called the
\* limiter and waits for its answer.
newPromise(r, ruleResult, limit) ==
    [key |-> cacheKey, owner |-> r, state |-> "pending", value |-> NoData, status |-> 0,
     thrown |-> NoThrown,
     waiters |-> <<>>, awaiting |-> "limit", rateOk |-> limit.ok,
     retryAfter |-> limit.retryAfterSeconds,
     iterations |-> 0, ruleRuns |-> 0, llmCalls |-> 0, stable |-> FALSE,
     everDiffered |-> TRUE,
     currentText |-> body, passRuleResult |-> ruleResult, allChanges |-> <<>>]

successResponseEmpty(data, via, from) ==
    [status |-> 200, data |-> NoData, via |-> via, from |-> from,
     error |-> "none", retryAfter |-> 0]

successResponse(data, via, from) ==
    [status |-> 200, data |-> data, via |-> via, from |-> from,
     error |-> "none", retryAfter |-> 0]

errorResponse(status, type, via, from) ==
    [status |-> status, data |-> NoData, via |-> via, from |-> from,
     error |-> type, retryAfter |-> 0]

caughtAsServerError(thrown, from) == errorResponse(500, "server_error", "miss", from)

\* The catch block of POST: a thrown object with a status is answered with
\* its status and json, anything else with 500 server_error.
caught(thrown, from) ==
    IF thrown.status # 0
    THEN [status |-> thrown.status, data |-> NoData, via |-> "miss", from |-> from,
          error |-> thrown.error, retryAfter |-> thrown.retryAfter]
    ELSE errorResponse(500, "server_error", "miss", from)

\* The handler returns resp; the page that sent the request shows the result
\* or the error unless it has aborted the fetch.
respond(r, resp) ==
    [req EXCEPT ![r] = [pc |-> "done", awaits |-> 0, resp |-> resp, sentAt |-> 0,
                        page |-> IF req[r].page = "timeout" THEN "timeout"
                                 ELSE IF resp.status = 200 THEN "result" ELSE "error"]]

\* The request is sent by performRewrite unless it is already under way.
sent(r, pc, p) ==
    [req EXCEPT ![r] = [pc |-> pc, awaits |-> p, resp |-> NoResponse,
                        sentAt |-> IF req[r].pc = "new" THEN now ELSE req[r].sentAt,
                        page |-> IF req[r].pc = "new" THEN "loading" ELSE req[r].page]]

\* A processingPromise settles: the continuations awaiting it become ready,
\* the creator's first, then the waiters' in the order they began to wait.
settle(pr, state, status, value) ==
    [pr EXCEPT !.state = state, !.status = status, !.value = value, !.awaiting = "none"]

\* The closure throws: the processingPromise rejects with the thrown object.
reject(pr, thrown) ==
    [settle(pr, "rejected", IF thrown.status # 0 THEN thrown.status ELSE 500, NoData)
        EXCEPT !.thrown = thrown]

\* The handler creates its processingPromise, registers it and awaits it. In
\* maintenance mode the closure throws before it calls the limiter.
StartProcessing(r, rest) ==
    LET limit == IF maintenance
                 THEN [mc |-> memoryCache, ok |-> TRUE, retryAfterSeconds |-> 0]
                 ELSE consumeExpensiveCall(memoryCache, anonIds[r], now)
        ruleResult == IF variant = "single" THEN applyCheapRulesRoute(body) ELSE NoRuleResult
        p == Len(promises) + 1
        created == newPromise(r, ruleResult, limit)
    IN /\ promises' = Append(promises,
                             IF maintenance
                             THEN reject(created, [status |-> 503,
                                                   error |-> "Service unavailable",
                                                   retryAfter |-> 0])
                             ELSE created)
       /\ memoryCache' = limit.mc
       /\ pendingRequests' = mapSet(pendingRequests, cacheKey, p)
       /\ req' = sent(r, "owner", p)
       /\ microtasks' = Append(rest, IF maintenance THEN <<"req", r>> ELSE <<"exec", p>>)
       /\ UNCHANGED cache

\* The pathnames a browser asks for.
HomePath == <<"/">>
AboutPath == <<"/", "a", "b", "o", "u", "t">>
UnlockPath == <<"/", "u", "n", "l", "o", "c", "k">>
RobotsPath == <<"/", "r", "o", "b", "o", "t", "s", ".", "t", "x", "t">>
ApiRewritePath == <<"/", "a", "p", "i", "/", "r", "e", "w", "r", "i", "t", "e">>
Pathnames == {HomePath, AboutPath, UnlockPath, RobotsPath, ApiRewritePath}

\* /unlock ("redirect").
middleware(gate, pathname, cookie) ==
    IF ~gate THEN "next"
    ELSE IF \/ startsWith(pathname, <<"/", "_", "n", "e", "x", "t">>)
            \/ startsWith(pathname, <<"/", "a", "p", "i">>)
            \/ pathname = UnlockPath
            \/ pathname = <<"/", "f", "a", "v", "i", "c", "o", "n", ".", "i", "c", "o">>
            \/ pathname = RobotsPath
            \/ pathname = <<"/", "s", "i", "t", "e", "m", "a", "p", ".", "x", "m", "l">>
    THEN "next"
    ELSE IF ~cookie THEN "redirect"
    ELSE "next"

\* POST up to its first await; the middleware has let the request through.
Arrive(r, rulesOnly) ==
    /\ microtasks = <<>>
    /\ req[r].pc = "new"
    /\ middleware(passwordGate, ApiRewritePath, cmsAuth[r]) = "next"
    /\ \A q \in 1..(r - 1) : req[q].pc # "new"
    /\ IF invalidText(body)
       THEN /\ req' = respond(r, errorResponse(400, "invalid_request", "invalid", 0))
            /\ UNCHANGED <<promises, cache, pendingRequests, memoryCache, microtasks>>
       ELSE IF ~cacheBypass[r] /\ cacheKey \in DOMAIN cache
       THEN /\ req' = respond(r, successResponse(cache[cacheKey].data, "cache", 0))
            /\ UNCHANGED <<promises, cache, pendingRequests, memoryCache, microtasks>>
       ELSE IF variant = "single" /\ rulesOnly
       THEN /\ \E ruleResult \in {applyCheapRulesRoute(body)} :
                  req' = respond(r, successResponse(
                            [revised_text |-> ruleResult.revisedText,
                             changes |-> processAndFinalizeChanges(
                                             ruleResult.changes, body, ruleResult.revisedText)],
                            "rules", 0))
            /\ UNCHANGED <<promises, cache, pendingRequests, memoryCache, microtasks>>
       ELSE IF cacheKey \in DOMAIN pendingRequests
       THEN /\ req' = sent(r, "waiter", pendingRequests[cacheKey])
            /\ promises' = [promises EXCEPT ![pendingRequests[cacheKey]].waiters = Append(@, r)]
            /\ UNCHANGED <<cache, pendingRequests, memoryCache, microtasks>>
       ELSE StartProcessing(r, microtasks)
    /\ UNCHANGED <<variant, body, anonIds, cacheBypass, cmsAuth, passwordGate, maintenance, apiKey, now, probe>>

reactions(pr) == <<<<"req", pr.owner>>>> \o [i \in 1..Len(pr.waiters) |-> <<"req", pr.waiters[i]>>]

\* The loop head of the fixed-point handler: the rules run and the LLM is called.
beginPass(pr) ==
    [pr EXCEPT !.iterations = @ + 1, !.ruleRuns = @ + 1, !.llmCalls = @ + 1,
               !.passRuleResult = applyCheapRulesLoop(pr.currentText),
               !.awaiting = "llm"]

\* The closure resumes with the limiter's answer: it throws the 429 object,
\* or calls the adapter, which throws at once when the API key is missing.
Admit(p) ==
    /\ microtasks # <<>> /\ Head(microtasks) = <<"exec", p>>
    /\ IF ~promises[p].rateOk
       THEN /\ promises' = [promises EXCEPT ![p] =
                               reject(@, [status |-> 429, error |-> "Rate limit exceeded",
                                          retryAfter |-> promises[p].retryAfter])]
            /\ microtasks' = Tail(microtasks) \o reactions(promises[p])
       ELSE IF ~apiKey
       THEN /\ promises' = [promises EXCEPT ![p] =
                               reject([@ EXCEPT !.ruleRuns = 1, !.iterations = 1],
                                      [status |-> 0, error |-> "GEMINI_API_KEY is not defined",
                                       retryAfter |-> 0])]
            /\ microtasks' = Tail(microtasks) \o reactions(promises[p])
       ELSE /\ promises' = [promises EXCEPT ![p] =
                               IF variant = "fixedpoint" THEN beginPass(@)
                               ELSE [@ EXCEPT !.llmCalls = 1, !.ruleRuns = 1, !.iterations = 1,
                                              !.awaiting = "llm"]]
            /\ microtasks' = Tail(microtasks)
    /\ UNCHANGED <<variant, body, anonIds, cacheBypass, cmsAuth, passwordGate, maintenance, apiKey, now, req, cache, pendingRequests,
                   memoryCache, probe>>

\* The rest of a pass of the fixed-point loop once the LLM has answered.
endPass(pr, passResult) ==
    [pr EXCEPT !.stable = (passResult.revised_text = pr.currentText),
               !.everDiffered = @ /\ passResult.revised_text # pr.passRuleResult.revisedText,
               !.allChanges = trackLocations(pr.allChanges, pr.currentText,
                                             pr.passRuleResult, passResult),
               !.currentText = passResult.revised_text]

\* route.ts after the LLM has answered.
finishSingle(pr, upstreamResult) ==
    LET allChanges == pr.passRuleResult.changes \o upstreamResult.changes
    IN settle([pr EXCEPT !.allChanges = recalculateAllLocations(upstreamResult.revised_text,
                                                                allChanges),
                         !.everDiffered = upstreamResult.revised_text # pr.passRuleResult.revisedText,
                         !.stable = TRUE,
                         !.currentText = upstreamResult.revised_text],
              "fulfilled", 200,
              [revised_text |-> upstreamResult.revised_text,
               changes |-> processAndFinalizeChanges(allChanges, body,
                                                     upstreamResult.revised_text)])

\* The LLM call of promise p returns raw; the closure runs to its next await
\* or to its end.
LLMReturn(p, raw) ==
    /\ microtasks = <<>>
    /\ promises[p].state = "pending" /\ promises[p].awaiting = "llm"
    /\ LET passResult == Resp(raw.revised_text, parseChanges(raw.changes))
           loop(ended) == IF ~ended.stable /\ ended.iterations < MAX_ITERATIONS
                          THEN beginPass(ended)
                          ELSE settle(ended, "fulfilled", 200,
                                      [revised_text |-> ended.currentText,
                                       changes |-> finalCleanup(ended.allChanges)])
       IN \E next \in {IF variant = "single" THEN finishSingle(promises[p], passResult)
                       ELSE loop(endPass(promises[p], passResult))} :
             /\ promises' = [promises EXCEPT ![p] = next]
             /\ microtasks' = IF next.state = "pending" THEN microtasks ELSE reactions(next)
    /\ UNCHANGED <<variant, body, anonIds, cacheBypass, cmsAuth, passwordGate, maintenance, apiKey, now, req, cache, pendingRequests,
                   memoryCache, probe>>

\* What the adapter throws: the SDK's error when the call fails, JSON.parse's
\* SyntaxError when the answer is not JSON.
AdapterErrors == {"fetch failed", "Unexpected token in JSON"}

\* The LLM call throws.
LLMFail(p, message) ==
    /\ microtasks = <<>>
    /\ promises[p].state = "pending" /\ promises[p].awaiting = "llm"
    /\ promises' = [promises EXCEPT ![p] =
                       reject(@, [status |-> 0, error |-> message, retryAfter |-> 0])]
    /\ microtasks' = reactions(promises[p])
    /\ UNCHANGED <<variant, body, anonIds, cacheBypass, cmsAuth, passwordGate, maintenance, apiKey, now, req, cache, pendingRequests,
                   memoryCache, probe>>

\* A handler resumes after the promise it awaited has settled.
Resume(r) ==
    /\ microtasks # <<>> /\ Head(microtasks) = <<"req", r>>
    /\ LET p == req[r].awaits
           pr == promises[p]
       IN IF req[r].pc = "owner"
          THEN /\ req' = respond(r, IF pr.state = "fulfilled"
                                    THEN successResponse(pr.value, "miss", p)
                                    ELSE caught(pr.thrown, p))
               /\ cache' = IF pr.state = "fulfilled"
                           THEN mapSet(cache, pr.key,
                                       [data |-> pr.value, timestamp |-> now * 1000])
                           ELSE cache
               /\ pendingRequests' = mapDelete(pendingRequests, pr.key)
               /\ microtasks' = Tail(microtasks)
               /\ UNCHANGED <<promises, memoryCache>>
          ELSE IF pr.state = "fulfilled"
          THEN /\ req' = respond(r, successResponse(pr.value, "dedupe", p))
               /\ microtasks' = Tail(microtasks)
               /\ UNCHANGED <<promises, cache, pendingRequests, memoryCache>>
          ELSE StartProcessing(r, Tail(microtasks))
    /\ UNCHANGED <<variant, body, anonIds, cacheBypass, cmsAuth, passwordGate, maintenance, apiKey, now, probe>>

Init ==
    /\ variant \in {"fixedpoint", "single"}
    /\ body \in Bodies
    /\ anonIds = [r \in Requests |-> r]
    /\ cacheBypass = [r \in Requests |-> FALSE]
    /\ cmsAuth = [r \in Requests |-> TRUE]
    /\ passwordGate = TRUE
    /\ maintenance = FALSE
    /\ apiKey \in BOOLEAN
    /\ now = 0
    /\ req = [r \in Requests |-> NewRequest]
    /\ promises = <<>>
    /\ cache = <<>>
    /\ pendingRequests = <<>>
    /\ memoryCache = <<>>
    /\ microtasks = <<>>
    /\ probe = NoProbe

Next ==
    \/ \E r \in Requests, rulesOnly \in BOOLEAN : Arrive(r, rulesOnly)
    \/ \E p \in 1..Len(promises) : Admit(p)
    \/ \E p \in 1..Len(promises) : \E raw \in LLMMenu(promises[p].passRuleResult.revisedText) :
          LLMReturn(p, raw)
    \/ \E p \in 1..Len(promises), message \in AdapterErrors : LLMFail(p, message)
    \/ \E r \in Requests : Resume(r)

Spec == Init /\ [][Next]_vars

\* ------------------------------------------------------------ time and the page's deadline
MaxDays == 1

\* The page's 30 second timer fires while its fetch is under way: the fetch is
\* aborted and the page shows the timeout error. The handler is not told.
Deadline(r) ==
    /\ microtasks = <<>>
    /\ req[r].pc \in {"owner", "waiter"} /\ req[r].page = "loading"
    /\ req' = [req EXCEPT ![r].page = "timeout"]
    /\ now' = Max2(now, req[r].sentAt + ClientTimeoutSeconds)
    /\ UNCHANGED <<variant, body, anonIds, cacheBypass, cmsAuth, passwordGate, maintenance, apiKey, promises, cache, pendingRequests,
                   memoryCache, microtasks, probe>>

\* A day passes; a page that still waits would have aborted before.
Tick ==
    /\ microtasks = <<>>
    /\ \A r \in Requests : req[r].page # "loading"
    /\ now < MaxDays * DaySeconds
    /\ now' = now + DaySeconds
    /\ UNCHANGED <<variant, body, anonIds, cacheBypass, cmsAuth, passwordGate, maintenance, apiKey, req, promises, cache, pendingRequests,
                   memoryCache, microtasks, probe>>

InitTimed ==
    /\ variant \in {"fixedpoint", "single"}
    /\ body = BodyTypo
    /\ anonIds = [r \in Requests |-> 1]
    /\ cacheBypass \in {[r \in Requests |-> FALSE], [r \in Requests |-> r = 2]}
    /\ cmsAuth = [r \in Requests |-> TRUE]
    /\ passwordGate = TRUE
    /\ maintenance = FALSE
    /\ apiKey = TRUE
    /\ now = 0
    /\ req = [r \in Requests |-> NewRequest]
    /\ promises = <<>>
    /\ cache = <<>>
    /\ pendingRequests = <<>>
    /\ memoryCache = <<>>
    /\ microtasks = <<>>
    /\ probe = NoProbe

NextTimed ==
    \/ Next
    \/ \E r \in Requests : Deadline(r)
    \/ Tick

SpecTimed == InitTimed /\ [][NextTimed]_vars

\* ------------------------------------------------------------ properties of the handler
\* Offset in the new text at which the i-th run of a diff begins.
RECURSIVE runStart(_, _)
runStart(diffs, i) ==
    IF i <= 1 THEN 0
    ELSE runStart(diffs, i - 1)
         + (IF diffs[i - 1].op = "del" THEN 0 ELSE Len(diffs[i - 1].text))

\* The inserted runs of a diff, as spans of the new text.
insertedRuns(diffs) ==
    {[start |-> runStart(diffs, i), end |-> runStart(diffs, i) + Len(diffs[i].text),
      text |-> diffs[i].text] : i \in {k \in 1..Len(diffs) : diffs[k].op = "ins"}}

overlaps(run, c) == hasLoc(c) /\ run.start < c.loc.end /\ run.end > c.loc.start

sameEdit(a, b) ==
    /\ a.before = b.before /\ a.after = b.after /\ a.reason = b.reason
    /\ a.context_before = b.context_before /\ a.context_after = b.context_after

Fulfilled == {p \in 1..Len(promises) : promises[p].state = "fulfilled"}
Answered == {r \in Requests : req[r].resp.status = 200}
within(c, text) == 0 <= c.loc.start /\ c.loc.start <= c.loc.end /\ c.loc.end <= Len(text)

\* C1: an execution of the fixed-point loop whose every LLM call returned a text
\* different from the call's input makes exactly 3 passes (3 runs of the rules,
\* 3 LLM calls) before it returns, and no execution makes a 4th pass.
C1_ExactlyThreePasses ==
    \A p \in 1..Len(promises) :
        variant = "fixedpoint" =>
            /\ promises[p].iterations <= MAX_ITERATIONS
            /\ (p \in Fulfilled /\ promises[p].everDiffered) =>
                   /\ promises[p].iterations = 3
                   /\ promises[p].ruleRuns = 3
                   /\ promises[p].llmCalls = 3

\* C2: at any time at most one execution per cache key is in flight, and every
\* caller that waited on an execution is answered with that execution's result.
C2_OneExecutionInFlight ==
    /\ \A p, q \in 1..Len(promises) :
          (promises[p].state = "pending" /\ promises[q].state = "pending"
             /\ promises[p].key = promises[q].key) => p = q
    /\ \A p \in 1..Len(promises) : \A i \in 1..Len(promises[p].waiters) :
          req[promises[p].waiters[i]].pc = "done" =>
              req[promises[p].waiters[i]].resp.from = p

\* C3: after every pass and in every response, each change that has a loc lies
\* within the text then current: 0 <= start <= end <= length.
C3_LocWithinCurrentText ==
    /\ \A p \in 1..Len(promises) : \A i \in 1..Len(promises[p].allChanges) :
          hasLoc(promises[p].allChanges[i]) =>
              within(promises[p].allChanges[i], promises[p].currentText)
    /\ \A r \in Answered : \A i \in 1..Len(req[r].resp.data.changes) :
          hasLoc(req[r].resp.data.changes[i]) =>
              within(req[r].resp.data.changes[i], req[r].resp.data.revised_text)

\* C4: in every successful response each inserted run of the diff between the
\* posted text and revised_text overlaps the loc of a returned change.
C4_InsertedRunsCovered ==
    \A r \in Answered :
        \A run \in insertedRuns(diff_cleanupSemantic(
                                    diff_main(body, req[r].resp.data.revised_text))) :
            \E i \in 1..Len(req[r].resp.data.changes) :
                overlaps(run, req[r].resp.data.changes[i])

\* C5: a change left without a loc by the locator or the projector is still in
\* the returned list, without a loc.
C5_UnlocatedKept ==
    \A p \in Fulfilled : \A i \in 1..Len(promises[p].allChanges) :
        ~hasLoc(promises[p].allChanges[i]) =>
            \E j \in 1..Len(promises[p].value.changes) :
                /\ sameEdit(promises[p].value.changes[j], promises[p].allChanges[i])
                /\ ~hasLoc(promises[p].value.changes[j])

\* C6: no two returned changes have the same span, and of the accumulated
\* changes with one span the first is the one returned.
C6_NoDuplicateSpans ==
    /\ \A r \in Answered : \A i, j \in 1..Len(req[r].resp.data.changes) :
          (i < j /\ hasLoc(req[r].resp.data.changes[i]))
             => req[r].resp.data.changes[i].loc # req[r].resp.data.changes[j].loc
    /\ \A p \in Fulfilled : \A i \in 1..Len(promises[p].allChanges) :
          (/\ hasLoc(promises[p].allChanges[i])
           /\ \A k \in 1..(i - 1) : promises[p].allChanges[k].loc # promises[p].allChanges[i].loc)
             => \E j \in 1..Len(promises[p].value.changes) :
                   /\ sameEdit(promises[p].value.changes[j], promises[p].allChanges[i])
                   /\ promises[p].value.changes[j].loc = promises[p].allChanges[i].loc

\* C7: the returned list is in ascending order of loc.start and every change
\* without a loc comes after all changes with one.
C7_SortedByStart ==
    \A r \in Answered : \A i, j \in 1..Len(req[r].resp.data.changes) :
        i < j =>
            /\ (hasLoc(req[r].resp.data.changes[i]) /\ hasLoc(req[r].resp.data.changes[j]))
                  => req[r].resp.data.changes[i].loc.start <= req[r].resp.data.changes[j].loc.start
            /\ hasLoc(req[r].resp.data.changes[j]) => hasLoc(req[r].resp.data.changes[i])

\* C8: in every response the ids of the changes are c1, c2, ..., cn in list order.
C8_IdsSequential ==
    \A r \in Answered : \A i \in 1..Len(req[r].resp.data.changes) :
        req[r].resp.data.changes[i].change_id = IdC(i)

C8_Witness ==
    \E p \in Fulfilled :
        /\ Len(promises[p].value.changes) >= 2
        /\ \E i \in 1..Len(promises[p].allChanges) : promises[p].allChanges[i].change_id # IdC(i)
        /\ \E r \in Answered : req[r].resp.from = p

\* ------------------------------------------------------------ the rule engine on its own
SeqsUpTo(A, n) == UNION {[1..k -> A] : k \in 0..n}

MaxRuleLen == 4
RuleAlphabet == {"a", " ", "-", DQ}
RuleTexts ==
    SeqsUpTo(RuleAlphabet, MaxRuleLen)
    \cup {<<"t", "e", "h", " ", "-", "-", " ", "t", "e", "h">>, <<"T", "e", "h", " ", " ", "t", "e", "h">>, <<"a", " ", DQ, "t", "e", "h", DQ, " ", "-", "-", " ", "b">>,
          <<"a", " ", " ", "b", " ", "-", "-", " ", "c", " ", " ", "d", " ", "-", "-", " ", "e">>, <<"a", " ", "-", "-", " ", "b", " ", "-", "-", " ", "c">>}

IdleHandler ==
    /\ variant = "none"
    /\ body = <<>>
    /\ anonIds = [r \in Requests |-> r]
    /\ cacheBypass = [r \in Requests |-> FALSE]
    /\ cmsAuth = [r \in Requests |-> TRUE]
    /\ passwordGate = TRUE
    /\ maintenance = FALSE
    /\ apiKey = TRUE
    /\ now = 0
    /\ req = [r \in Requests |-> NewRequest]
    /\ promises = <<>>
    /\ cache = <<>>
    /\ pendingRequests = <<>>
    /\ memoryCache = <<>>
    /\ microtasks = <<>>

InitRules ==
    /\ IdleHandler
    /\ probe \in {[fn |-> "rules", engine |-> e, text |-> x, done |-> FALSE,
                     out |-> NoRuleResult, again |-> NoRuleResult] :
                    e \in {"route", "shift"}, x \in RuleTexts}

RunRules ==
    /\ probe.fn = "rules" /\ ~probe.done
    /\ LET engine(x) == IF probe.engine = "route"
                         THEN applyCheapRulesRoute(x)
                         ELSE applyCheapRulesShift(x)
       IN \E first \in {engine(probe.text)} :
            probe' = [probe EXCEPT !.done = TRUE, !.out = first,
                                   !.again = engine(first.revisedText)]
    /\ UNCHANGED handlerVars

NextRules == RunRules

SpecRules == InitRules /\ [][NextRules]_vars

\* C10: every change the rule engine returns has a loc whose span of the final
\* revisedText reads the change's after, and has severity recommended.
C10_RuleLocExact ==
    (probe.fn = "rules" /\ probe.done) =>
        \A i \in 1..Len(probe.out.changes) :
            /\ hasLoc(probe.out.changes[i])
            /\ substring(probe.out.revisedText, probe.out.changes[i].loc.start,
                         probe.out.changes[i].loc.end) = probe.out.changes[i].after
            /\ probe.out.changes[i].severity = "recommended"

MaxDiffLen == 3
DiffAlphabet == {"a", "b"}
DiffTexts ==
    SeqsUpTo(DiffAlphabet, MaxDiffLen) \cup {<<"a", "b", "b", "a">>, <<"a", "b", "b", "b", "a">>}

locatedAt(a, b) ==
    [change_id |-> <<"c", 1>>, type |-> "other", before |-> <<>>, after |-> <<"x">>,
     reason |-> <<"r">>, severity |-> "recommended",
     context_before |-> <<>>, context_after |-> <<>>, loc |-> Loc(a, b)]

\* Lists of existing changes: none, one without a loc, one with a span.
ExistingLists ==
    {<<>>, <<[locatedAt(0, 0) EXCEPT !.loc = NoLoc]>>}
    \cup {<<locatedAt(a, b)>> : a \in 0..MaxDiffLen, b \in 1..MaxDiffLen}

InitMissing ==
    /\ IdleHandler
    /\ probe \in {[fn |-> "missing", originalText |-> o, revisedText |-> r, existing |-> e,
                   done |-> FALSE, out |-> <<>>] :
                    o \in DiffTexts, r \in DiffTexts,
                    e \in {x \in ExistingLists : x = <<>> \/ ~hasLoc(x[1])
                                                   \/ x[1].loc.start < x[1].loc.end}}

RunMissing ==
    /\ probe.fn = "missing" /\ ~probe.done
    /\ probe' = [probe EXCEPT !.done = TRUE,
                              !.out = computeMissingChanges(probe.originalText,
                                                            probe.revisedText, probe.existing)]
    /\ UNCHANGED handlerVars

NextMissing == RunMissing

SpecMissing == InitMissing /\ [][NextMissing]_vars

\* The inserted runs of the semantic diff that share no position with the span
\* of a located existing change.
uncoveredRuns(originalText, revisedText, existing) ==
    {run \in insertedRuns(diff_cleanupSemantic(diff_main(originalText, revisedText))) :
        ~\E i \in 1..Len(existing) :
            /\ hasLoc(existing[i])
            /\ \E x \in run.start..(run.end - 1) :
                  existing[i].loc.start <= x /\ x < existing[i].loc.end}

MaxLocLen == 4
LocAlphabet == {"a", "A", "-", EM}
TextCats == <<"t", "h", "e", " ", "c", "a", "t", " ", "s", "a", "t", " ", "a", "n", "d", " ",
              "t", "h", "e", " ", "c", "a", "t", " ", "r", "a", "n">>
LocateTexts == SeqsUpTo(LocAlphabet, MaxLocLen) \cup {TextCats}
LocateChanges ==
    {LLMChange(1, "punctuation", <<>>, after, <<"r">>, cb, <<>>) :
        after \in {<<"a">>, <<"A", EM>>}, cb \in {<<>>, <<"a">>}}
    \cup {LLMChange(1, "spelling", <<>>, <<"c", "a", "t">>, <<"r">>, <<"t", "h", "e">>, <<"r", "a", "n">>)}

InitLocate ==
    /\ IdleHandler
    /\ probe \in {[fn |-> "locate", engine |-> e, text |-> x, change |-> c,
                   done |-> FALSE, out |-> NoLoc] :
                    e \in {"loop", "route"}, x \in LocateTexts, c \in LocateChanges}

RunLocate ==
    /\ probe.fn = "locate" /\ ~probe.done
    /\ probe' = [probe EXCEPT !.done = TRUE,
                              !.out = IF probe.engine = "loop"
                                      THEN locateChangeInTextLoop(probe.text, probe.change)
                                      ELSE locateChangeInTextRoute(probe.text, probe.change)]
    /\ UNCHANGED handlerVars

SpecLocate == InitLocate /\ [][RunLocate]_vars

\* Every occurrence the locator scores, with its total score (context before +
\* context after + flat bonus).
scoredOccurrences(engine, text, change) ==
    IF engine = "loop"
    THEN addBonus(candidatesFrom(text, text, trim(change.after), change.context_before,
                                 change.context_after, 0, "loop"), 10)
    ELSE addBonus(candidatesFrom(text, text, trim(change.after), trim(change.context_before),
                                 trim(change.context_after), 0, "route"), 10)
         \o fuzzyCandidates(text, fuzzyVariants(trim(change.after)),
                            trim(change.context_before), trim(change.context_after))

\* C12: for a change with non-empty after.trim(), the locator returns the span
\* of an occurrence with the maximal total score, and among the occurrences
\* with that score the one with the smallest start index.
C12_BestLeftmost ==
    (probe.fn = "locate" /\ probe.done /\ trim(probe.change.after) # <<>>) =>
        LET cands == scoredOccurrences(probe.engine, probe.text, probe.change)
        IN IF cands = <<>> THEN probe.out = NoLoc
           ELSE \E i \in 1..Len(cands) :
                  /\ probe.out = Loc(cands[i].index, cands[i].index + cands[i].length)
                  /\ \A j \in 1..Len(cands) :
                       /\ cands[i].score >= cands[j].score
                       /\ cands[j].score = cands[i].score => cands[i].index <= cands[j].index

\* ------------------------------------------------------------ the projector on its own
MaxProjLen == 3
InsertedTexts == SeqsUpTo(DiffAlphabet, 2) \ {<<>>}

\* oldText with ins inserted at offset at.
insertedInto(oldText, at, ins) ==
    substring(oldText, 0, at) \o ins \o substring(oldText, at, Len(oldText))

InitProject ==
    /\ IdleHandler
    /\ probe \in {[fn |-> "project", oldText |-> o, newText |-> insertedInto(o, at, ins),
                   at |-> at, start |-> sp[1], end |-> sp[2], done |-> FALSE, out |-> NoLoc] :
                    o \in SeqsUpTo(DiffAlphabet, MaxProjLen), at \in 0..MaxProjLen,
                    ins \in InsertedTexts,
                    sp \in {x \in (0..MaxProjLen) \X (0..MaxProjLen) : x[1] <= x[2]}}
    /\ probe.at <= Len(probe.oldText)
    /\ probe.end <= Len(probe.oldText)

RunProject ==
    /\ probe.fn = "project" /\ ~probe.done
    /\ probe' = [probe EXCEPT !.done = TRUE,
                              !.out = projectCoordinates(probe.start, probe.end,
                                                         probe.oldText, probe.newText)]
    /\ UNCHANGED handlerVars

SpecProject == InitProject /\ [][RunProject]_vars

\* C13: when newText is oldText with text inserted strictly after offset k,
\* a span with start < end <= k projects to itself.
C13_PrefixSpanUnchanged ==
    (probe.fn = "project" /\ probe.done /\ probe.end < probe.at) =>
        probe.out = Loc(probe.start, probe.end)

\* ------------------------------------------------------------ properties of the protection layer
\* C14: a request whose text is empty or longer than 4000 characters is
\* answered 400 in the step it arrives, with no promise created, no limiter
\* entry, no LLM call and the cache and in-flight table unchanged; any other
\* text is not answered 400, and a text of exactly 4000 characters is valid.
C14_InvalidRejectedFirst ==
    [][\A r \in Requests :
          (req[r].pc = "new" /\ req'[r].pc # "new") =>
              /\ (body = <<>> \/ Len(body) > 4000) =>
                    /\ req'[r].pc = "done"
                    /\ req'[r].resp.status = 400
                    /\ UNCHANGED <<promises, cache, pendingRequests, memoryCache, microtasks>>
              /\ (body # <<>> /\ Len(body) <= 4000) => req'[r].resp.status # 400
              /\ ~invalidText(LongBody(4000))]_vars

C14_Witness ==
    /\ Len(body) = 4001
    /\ \A r \in Requests : req[r].pc = "done" /\ req[r].resp.status = 400
    /\ promises = <<>> /\ cache = <<>> /\ memoryCache = <<>>

\* C15: two adapter failures of different kinds (missing API key, failed
\* call, answer that is not JSON) are answered with different error types.
C15_ErrorKindsDistinct ==
    \A p, q \in 1..Len(promises) :
        (/\ promises[p].state = "rejected" /\ promises[p].thrown.status = 0
         /\ promises[q].state = "rejected" /\ promises[q].thrown.status = 0
         /\ promises[p].thrown.error # promises[q].thrown.error
         /\ req[promises[p].owner].pc = "done" /\ req[promises[q].owner].pc = "done") =>
            req[promises[p].owner].resp.error # req[promises[q].owner].resp.error

\* C16: an execution whose locator or projector left a change without a loc
\* still ends fulfilled with status 200 and the final text, and returns that
\* change, only without its loc; no execution is rejected for another reason
\* than the limiter's refusal or the adapter's failure.
C16_NullLocDegrades ==
    \A p \in 1..Len(promises) :
        /\ promises[p].state = "rejected" => promises[p].thrown # NoThrown
        /\ (/\ promises[p].state = "fulfilled"
            /\ \E i \in 1..Len(promises[p].allChanges) : ~hasLoc(promises[p].allChanges[i])) =>
               /\ promises[p].status = 200
               /\ promises[p].value.revised_text = promises[p].currentText
               /\ \A i \in 1..Len(promises[p].allChanges) :
                     ~hasLoc(promises[p].allChanges[i]) =>
                         \E j \in 1..Len(promises[p].value.changes) :
                             /\ promises[p].value.changes[j].before = promises[p].allChanges[i].before
                             /\ promises[p].value.changes[j].after = promises[p].allChanges[i].after
                             /\ promises[p].value.changes[j].loc = NoLoc

\* C17: once the page's deadline has elapsed for a request, the execution that
\* request created is aborted: it never ends fulfilled.
C17_DeadlineAborts ==
    \A r \in Requests : \A p \in 1..Len(promises) :
        (req[r].page = "timeout" /\ promises[p].owner = r) => promises[p].state # "fulfilled"

\* C18: a request is answered from the cache only while the entry is younger
\* than CACHE_TTL_MS.
C18_CacheExpires ==
    [][\A r \in Requests :
          (req[r].pc = "new" /\ req'[r].resp.via = "cache") =>
              now * 1000 - cache[cacheKey].timestamp < CACHE_TTL_MS]_vars

MaxUsers == 5
MaxRefused == 2
SoloCalls == USER_RPD + 3
CrowdCalls == 2 * MaxUsers + 1

InitLimit ==
    /\ IdleHandler
    /\ \E users \in {1, MaxUsers} :
          probe = [fn |-> "limit", users |-> users, now |-> 0, memoryCache |-> <<>>,
                   granted |-> <<>>, calls |-> 0, refused |-> 0]

\* The seconds that pass before the next call.
Pauses(users) == IF users = 1 THEN {0, HalfMinuteSeconds, DaySeconds} ELSE {0, HalfMinuteSeconds}

RunLimit ==
    /\ probe.fn = "limit"
    /\ probe.calls < (IF probe.users = 1 THEN SoloCalls ELSE CrowdCalls)
    /\ \E anonId \in 1..probe.users, pause \in Pauses(probe.users) :
          LET t == probe.now + pause
              answer(r) ==
                  [probe EXCEPT !.now = t, !.memoryCache = r.mc, !.calls = @ + 1,
                                !.refused = IF r.ok THEN @ ELSE @ + 1,
                                !.granted = IF r.ok
                                            THEN mapSet(@, <<anonId, t>>,
                                                        mapGet(@, <<anonId, t>>, 0) + 1)
                                            ELSE @]
          IN /\ t < FirstDaySeconds
             /\ probe.users = 1 \/ t < MinuteSeconds
             /\ \E next \in {answer(consumeExpensiveCall(probe.memoryCache, anonId, t))} :
                   /\ next.refused <= MaxRefused
                   /\ probe' = next
    /\ UNCHANGED handlerVars

NextLimit == RunLimit

SpecLimit == InitLimit /\ [][NextLimit]_vars

RECURSIVE sumOver(_, _)
sumOver(f, keys) ==
    IF keys = {} THEN 0
    ELSE LET k == CHOOSE x \in keys : TRUE IN f[k] + sumOver(f, keys \ {k})

\* The number of calls answered ok among those whose (anonId, time) satisfies sel.
grantedWhere(sel(_, _)) ==
    sumOver(probe.granted, {k \in DOMAIN probe.granted : sel(k[1], k[2])})

\* C21: the ok answers of the in-memory limiter number at most USER_30S per
\* client in one 30 second bucket, at most USER_RPD per client on one
\* calendar day, and at most GLOBAL_RPM over all clients in one minute bucket.
C21_LimitsHold ==
    probe.fn = "limit" =>
        \A k \in DOMAIN probe.granted :
            /\ grantedWhere(LAMBDA a, t : a = k[1] /\ t \div HalfMinuteSeconds
                                                       = k[2] \div HalfMinuteSeconds) <= USER_30S
            /\ grantedWhere(LAMBDA a, t : a = k[1] /\ dateStr(t) = dateStr(k[2])) <= USER_RPD
            /\ grantedWhere(LAMBDA a, t : t \div MinuteSeconds = k[2] \div MinuteSeconds)
                   <= GLOBAL_RPM

\* ------------------------------------------------------------ the password gate
\* A browser asks for a page before it posts.
Visit(r, pathname) ==
    /\ microtasks = <<>>
    /\ \A q \in Requests : req[q].pc = "new"
    /\ probe' = [fn |-> "middleware", pathname |-> pathname, cookie |-> cmsAuth[r],
                 out |-> middleware(passwordGate, pathname, cmsAuth[r])]
    /\ UNCHANGED handlerVars

InitGate ==
    /\ variant \in {"fixedpoint", "single"}
    /\ body = BodyTypo
    /\ anonIds = [r \in Requests |-> r]
    /\ cacheBypass = [r \in Requests |-> FALSE]
    /\ cmsAuth \in {[r \in Requests |-> TRUE], [r \in Requests |-> r # 1]}
    /\ passwordGate \in BOOLEAN
    /\ maintenance = FALSE
    /\ apiKey = TRUE
    /\ now = 0
    /\ req = [r \in Requests |-> NewRequest]
    /\ promises = <<>>
    /\ cache = <<>>
    /\ pendingRequests = <<>>
    /\ memoryCache = <<>>
    /\ microtasks = <<>>
    /\ probe = NoProbe

NextGate ==
    \/ Next
    \/ \E r \in Requests, pathname \in Pathnames : Visit(r, pathname)

SpecGate == InitGate /\ [][NextGate]_vars

\* C22: with the password gate enabled, a POST to /api/rewrite without the
\* cookie cms_auth=1 is answered 401 unauthorized and reaches neither the
\* rule engine nor the cache nor the LLM, and a request without the cookie for
\* a page that is not public is redirected to /unlock.
C22_GateProtects ==
    passwordGate =>
        /\ \A r \in Requests :
              ~cmsAuth[r] /\ req[r].pc # "new" =>
                  /\ req[r].pc = "done"
                  /\ req[r].resp.status = 401 /\ req[r].resp.error = "unauthorized"
                  /\ \A p \in 1..Len(promises) : promises[p].owner # r
        /\ probe.fn = "middleware" /\ ~probe.cookie
              /\ probe.pathname \in {HomePath, AboutPath} => probe.out = "redirect"

\* C23: in each pass of the fixed-point loop stable is set exactly when the
\* LLM's output equals the rule engine's output of that pass, and the current
\* text becomes the LLM's output; so a pass in which the rules changed the
\* text and the LLM returned the rules' output unchanged is the last pass.
C23_StableIffEcho ==
    [][\A p \in 1..Len(promises) :
          (/\ variant = "fixedpoint"
           /\ promises[p].state = "pending" /\ promises[p].awaiting = "llm"
           /\ \/ promises'[p].state = "fulfilled"
              \/ promises'[p].iterations # promises[p].iterations)
          => LET textAtStartOfPass == promises[p].currentText
                 textAfterRules == promises[p].passRuleResult.revisedText
                 textAfterLLM == promises'[p].currentText
             IN /\ promises'[p].stable <=> (textAfterLLM = textAfterRules)
                /\ (textAfterRules # textAtStartOfPass /\ textAfterLLM = textAfterRules)
                      => /\ promises'[p].state = "fulfilled"
                         /\ promises'[p].iterations = promises[p].iterations]_vars

\* ------------------------------------------------------------ one rule, several matches
\* The rule engines of route.ts and of the fixed-point handler on the same texts.
InitReplace ==
    /\ IdleHandler
    /\ probe \in {[fn |-> "replace", engine |-> e, text |-> x, done |-> FALSE,
                   out |-> NoRuleResult] :
                    e \in {"route", "loop"}, x \in RuleTexts}

RunReplace ==
    /\ probe.fn = "replace" /\ ~probe.done
    /\ probe' = [probe EXCEPT !.done = TRUE,
                              !.out = IF probe.engine = "route"
                                      THEN applyCheapRulesRoute(probe.text)
                                      ELSE applyCheapRulesLoop(probe.text)]
    /\ UNCHANGED handlerVars

SpecReplace == InitReplace /\ [][RunReplace]_vars

\* text.replace(regex, replacement) with the g flag: the text between the
\* matches is copied and every match span gives way to its replacement.
RECURSIVE replaceFrom(_, _, _)
replaceFrom(s, ms, pos) ==
    IF ms = <<>> THEN substring(s, pos, Len(s))
    ELSE substring(s, pos, Head(ms).index) \o Head(ms).after
         \o replaceFrom(s, Tail(ms), Head(ms).index + Head(ms).length)

RECURSIVE replaceAllRules(_, _)
replaceAllRules(s, rules) ==
    IF rules = <<>> THEN s
    ELSE replaceAllRules(replaceFrom(s, execAll(Head(rules), s, 0), 0), Tail(rules))

\* C24: the text the rule engine returns is the text obtained by replacing,
\* rule after rule, every match span by its replacement, also when a rule has
\* several matches whose replacements differ in length from the matches.
C24_GlobalReplace ==
    (probe.fn = "replace" /\ probe.done) =>
        probe.out.revisedText
            = replaceAllRules(probe.text,
                              IF probe.engine = "route" THEN RouteRules ELSE LoopRules)

\* ------------------------------------------------------------ insertions at the end
\* Step D of a pass on its own: a change the LLM reports is marked and located.
MaxSuffixLen == 3
SuffixAlphabet == {"a", "!"}

InitSuffix ==
    /\ IdleHandler
    /\ probe \in {[fn |-> "suffix", textAfterRules |-> r, textAfterLLM |-> l,
                   change |-> LLMChange(1, "punctuation",
                                        IF after = <<>> THEN <<"a">> ELSE <<>>, after,
                                        <<"E", "n", "d">>, r, ca),
                   done |-> FALSE, out |-> NoData] :
                    r \in SeqsUpTo(SuffixAlphabet, MaxSuffixLen - 1),
                    l \in SeqsUpTo(SuffixAlphabet, MaxSuffixLen),
                    after \in SeqsUpTo(SuffixAlphabet, MaxSuffixLen - 1),
                    ca \in {<<>>, <<" ">>, <<"a">>}}

RunSuffix ==
    /\ probe.fn = "suffix" /\ ~probe.done
    /\ \E marked \in {markSuffix(probe.change, probe.textAfterRules, probe.textAfterLLM)} :
          probe' = [probe EXCEPT !.done = TRUE,
                                 !.out = [marked EXCEPT !.loc =
                                             locateChangeInTextLoop(probe.textAfterLLM, marked)]]
    /\ UNCHANGED handlerVars

SpecSuffix == InitSuffix /\ [][RunSuffix]_vars

\* C25: a change of the LLM is treated as an insertion at the end of the text
\* only when textAfterLLM extends textAfterRules by a non-empty suffix, the
\* change has no trailing context and its after is exactly that suffix; it is
\* then located at {max(0, len(text) - len(after)), len(text)}, a span that
\* covers exactly the appended text.
C25_SuffixInsertion ==
    (probe.fn = "suffix" /\ probe.done /\ probe.out.type = "INSERT_AT_END") =>
        LET appended == substring(probe.textAfterLLM, Len(probe.textAfterRules),
                                  Len(probe.textAfterLLM))
        IN /\ startsWith(probe.textAfterLLM, probe.textAfterRules)
           /\ Len(probe.textAfterLLM) > Len(probe.textAfterRules)
           /\ isBlank(probe.change.context_after)
           /\ probe.change.after = appended
           /\ probe.out.loc = Loc(Max2(0, Len(probe.textAfterLLM) - Len(probe.change.after)),
                                  Len(probe.textAfterLLM))
           /\ substring(probe.textAfterLLM, probe.out.loc.start, probe.out.loc.end) = appended

\* ------------------------------------------------------------ deletions
\* The locator of the fixed-point handler on changes whose after is blank.
GapTexts == {<<>>, <<"a">>, TextAB, TextMat, BodyTail}
GapBefores == {<<>>, <<" ">>, <<"a">>, <<"a", " ">>, <<"o", "n", " ", "a">>, TextMat}
GapAfters == {<<>>, <<" ">>, <<"b">>, <<" ", "b">>, <<" ", ".">>, <<"m", "a", "t">>}

InitGap ==
    /\ IdleHandler
    /\ probe \in {[fn |-> "gap", text |-> x,
                   change |-> LLMChange(1, "punctuation", <<".">>, after,
                                        <<"S", "t", "o", "p">>, cb, ca),
                   done |-> FALSE, out |-> NoLoc] :
                    x \in GapTexts, after \in {<<>>, <<" ">>},
                    cb \in GapBefores, ca \in GapAfters}

RunGap ==
    /\ probe.fn = "gap" /\ ~probe.done
    /\ probe' = [probe EXCEPT !.done = TRUE,
                              !.out = locateChangeInTextLoop(probe.text, probe.change)]
    /\ UNCHANGED handlerVars

SpecGap == InitGap /\ [][RunGap]_vars

\* C26: for a change whose after is blank the locator returns null when both
\* contexts are empty; otherwise, when the window made of the tail of
\* context_before and the head of context_after occurs in the text, it returns
\* the zero-width span at the position, within the text, where the matched
\* tail of context_before ends and the head of context_after begins; and null
\* when the window does not occur.
C26_GapLocated ==
    (probe.fn = "gap" /\ probe.done) =>
        LET cb == trim(probe.change.context_before)
            ca == trim(probe.change.context_after)
            window == trim(sliceLast(cb, GapCtxLen) \o sliceFirst(ca, GapCtxLen))
            idx == indexOf(probe.text, window, 0)
            gapIndex == idx + Len(trimStart(sliceLast(cb, GapCtxLen)))
        IN IF cb = <<>> /\ ca = <<>> THEN probe.out = NoLoc
           ELSE IF idx # -1
                THEN /\ probe.out = Loc(gapIndex, gapIndex)
                     /\ 0 <= probe.out.start /\ probe.out.end <= Len(probe.text)
                ELSE probe.out = NoLoc

\* ------------------------------------------------------------ projection
\* projectCoordinates on its own, with a diff_main that returns or throws, and
\* the fixed-point handler on texts of which a later step deletes a part.
SpanTexts == SeqsUpTo(DiffAlphabet, MaxProjLen)

InitCollapse ==
    /\ IdleHandler
    /\ probe \in {[fn |-> "collapse", oldText |-> o, newText |-> n, threw |-> threw,
                   start |-> sp[1], end |-> sp[2], done |-> FALSE, out |-> NoLoc] :
                    o \in SpanTexts, n \in SpanTexts, threw \in BOOLEAN,
                    sp \in {x \in (0..MaxProjLen) \X (0..MaxProjLen) : x[1] <= x[2]}}
    /\ probe.end <= Len(probe.oldText)

RunCollapse ==
    /\ probe.fn = "collapse" /\ ~probe.done
    /\ probe' = [probe EXCEPT !.done = TRUE,
                              !.out = projectFrom(probe.start, probe.end,
                                          [threw |-> probe.threw,
                                           diffs |-> IF probe.threw THEN <<>>
                                                     ELSE diff_main(probe.oldText,
                                                                    probe.newText)])]
    /\ UNCHANGED handlerVars

InitTrack ==
    \/ InitCollapse
    \/ /\ variant = "fixedpoint"
       /\ body \in {BodyGone, BodySpaces, BodyHi}
       /\ anonIds = [r \in Requests |-> r]
       /\ cacheBypass = [r \in Requests |-> FALSE]
       /\ cmsAuth = [r \in Requests |-> TRUE]
       /\ passwordGate = TRUE
       /\ maintenance = FALSE
       /\ apiKey = TRUE
       /\ now = 0
       /\ req = [r \in Requests |-> NewRequest]
       /\ promises = <<>>
       /\ cache = <<>>
       /\ pendingRequests = <<>>
       /\ memoryCache = <<>>
       /\ microtasks = <<>>
       /\ probe = NoProbe

NextTrack ==
    \/ probe = NoProbe /\ Next
    \/ RunCollapse

SpecTrack == InitTrack /\ [][NextTrack]_vars

\* What a finished run of projectCoordinates has returned.
projected(run) ==
    LET diffs == diff_main(run.oldText, run.newText)
    IN (run.fn = "collapse" /\ run.done) =>
        /\ run.threw => run.out = NoLoc
        /\ (/\ ~run.threw /\ run.start # run.end
            /\ diff_xIndex(diffs, run.start) = diff_xIndex(diffs, run.end))
              => run.out = NoLoc
        /\ (/\ ~run.threw
            /\ \/ run.start = run.end
               \/ diff_xIndex(diffs, run.start) # diff_xIndex(diffs, run.end))
              => /\ run.out # NoLoc
                 /\ 0 <= run.out.start /\ run.out.start <= run.out.end
                 /\ run.out.end <= Len(run.newText)

\* C27: projectCoordinates returns null when the mapped start equals the
\* mapped end of a span that was not empty, and when the diff throws; in
\* every other case it returns a span with start <= end. The handler then
\* keeps the change in its accumulated list and removes only its loc.
C27_CollapseDropsLoc ==
    [][/\ projected(probe')
       /\ \A p \in 1..Len(promises) :
             (promises[p].state = "pending" /\ promises[p].awaiting = "llm")
             => /\ Len(promises'[p].allChanges) >= Len(promises[p].allChanges)
                /\ \A i \in 1..Len(promises[p].allChanges) :
                      promises'[p].allChanges[i]
                          = [promises[p].allChanges[i]
                                EXCEPT !.loc = promises'[p].allChanges[i].loc]]_vars

C27_Witness ==
    /\ body = BodyGone
    /\ \E p \in 1..Len(promises) :
          /\ promises[p].state = "fulfilled"
          /\ Len(promises[p].allChanges) = 2
          /\ promises[p].allChanges[1].after = <<"t", "h", "e">>
          /\ promises[p].allChanges[1].loc = NoLoc
          /\ locateChangeInTextLoop(TextXThe, promises[p].allChanges[1]) = Loc(2, 5)
          /\ promises[p].allChanges[2].loc = Loc(1, 1)

\* ------------------------------------------------------------ a failing detector
\* The single-pass handler with a Diff-Fallback Detector that works or throws.
InitFallback ==
    /\ variant = "single"
    /\ body \in {BodyList, BodyTypo, BodySpaces}
    /\ anonIds = [r \in Requests |-> r]
    /\ cacheBypass \in {[r \in Requests |-> FALSE], [r \in Requests |-> TRUE]}
    /\ cmsAuth = [r \in Requests |-> TRUE]
    /\ passwordGate = TRUE
    /\ maintenance = FALSE
    /\ apiKey = TRUE
    /\ now = 0
    /\ req = [r \in Requests |-> NewRequest]
    /\ promises = <<>>
    /\ cache = <<>>
    /\ pendingRequests = <<>>
    /\ memoryCache = <<>>
    /\ microtasks = <<>>
    /\ probe \in {NoProbe, DetectorFault}

SpecFallback == InitFallback /\ [][Next]_vars

\* The located changes alone, deduplicated, sorted and renumbered.
locatedOnly(text, changes) ==
    renumber(sortByStart(deduplicateChanges(recalculateAllLocations(text, changes))))

\* C28: when the Diff-Fallback Detector throws during finalization the
\* request is still answered 200 with revised_text and the located changes,
\* deduplicated, sorted and renumbered, as if no missing change was found.
C28_DetectorFailureSwallowed ==
    [][probe = DetectorFault =>
         /\ \A p \in 1..Len(promises) :
               (/\ promises[p].state = "pending" /\ promises[p].awaiting = "llm"
                /\ promises'[p].state # "pending" /\ promises'[p].thrown = NoThrown)
               => /\ promises'[p].state = "fulfilled" /\ promises'[p].status = 200
                  /\ \E raw \in LLMMenu(promises[p].passRuleResult.revisedText) :
                        promises'[p].value
                            = [revised_text |-> raw.revised_text,
                               changes |-> locatedOnly(raw.revised_text,
                                               promises[p].passRuleResult.changes
                                                   \o parseChanges(raw.changes))]
         /\ \A r \in Requests :
               (/\ req[r].pc = "owner" /\ req'[r].pc = "done"
                /\ promises[req[r].awaits].state = "fulfilled")
               => /\ req'[r].resp.status = 200
                  /\ req'[r].resp.data = promises[req[r].awaits].value
         /\ \A r \in Requests :
               (req[r].pc = "new" /\ req'[r].pc = "done" /\ req'[r].resp.via = "rules")
               => /\ req'[r].resp.status = 200
                  /\ \E ruleResult \in {applyCheapRulesRoute(body)} :
                        req'[r].resp.data
                            = [revised_text |-> ruleResult.revisedText,
                               changes |-> locatedOnly(ruleResult.revisedText,
                                                       ruleResult.changes)]]_vars

C28_Witness ==
    /\ probe = DetectorFault
    /\ body = BodyList
    /\ \E r \in Requests :
          /\ req[r].pc = "done" /\ req[r].resp.status = 200 /\ req[r].resp.via = "miss"
          /\ req[r].resp.data.revised_text = <<"a", ",", " ", "b", ",", " ", "c">>
          /\ req[r].resp.data.changes = <<>>
          /\ computeMissingChanges(body, req[r].resp.data.revised_text, <<>>) # <<>>

\* ------------------------------------------------------------ cache keys
\* Two requests in a row: the first is computed and its result is held under
\* its key, in the cache or in the in-flight table; the second looks its own
\* key up.
MaxKeyLen == 2
KeyAlphabet == {"A", "a", "B", " "}
KeyTexts ==
    (SeqsUpTo(KeyAlphabet, MaxKeyLen) \ {<<>>})
        \cup {<<"a", CR, LF, "b">>, <<"a", LF, "b">>, <<"a", CR, "b">>, <<LF, "A", "a", CR, LF>>}
KeyEnvs == {[mode |-> "real", provider |-> "gemini"], [mode |-> "mock", provider |-> "gemini"],
            [mode |-> "real", provider |-> "groq"]}

InitKey ==
    /\ IdleHandler
    /\ probe \in {[fn |-> "key", first |-> first, firstEnv |-> firstEnv,
                   second |-> second, secondEnv |-> secondEnv, table |-> table,
                   held |-> <<>>, asked |-> FALSE, hit |-> FALSE, from |-> <<>>] :
                    first \in KeyTexts, second \in KeyTexts,
                    firstEnv \in KeyEnvs, secondEnv \in KeyEnvs,
                    table \in {"cache", "pendingRequests"}}

\* cache.set / pendingRequests.set for the first request.
KeySet ==
    /\ probe.fn = "key" /\ probe.held = <<>>
    /\ probe' = [probe EXCEPT !.held =
                    mapSet(<<>>, generateCacheKey(probe.first, probe.firstEnv.mode,
                                                 probe.firstEnv.provider),
                           probe.first)]
    /\ UNCHANGED handlerVars

\* cache.has / pendingRequests.has for the second request.
KeyLookup ==
    /\ probe.fn = "key" /\ probe.held # <<>> /\ ~probe.asked
    /\ \E key \in {generateCacheKey(probe.second, probe.secondEnv.mode,
                                      probe.secondEnv.provider)} :
          probe' = [probe EXCEPT !.asked = TRUE,
                                 !.hit = key \in DOMAIN probe.held,
                                 !.from = mapGet(probe.held, key, <<>>)]
    /\ UNCHANGED handlerVars

NextKey == KeySet \/ KeyLookup

SpecKey == InitKey /\ [][NextKey]_vars

\* C29: a cache hit or an in-flight hit returns a result computed for a
\* request with the same normalized text (trimmed, CRLF replaced by LF), the
\* same mode and the same provider.
C29_KeySeparatesTexts ==
    (probe.fn = "key" /\ probe.asked /\ probe.hit) =>
        /\ replaceCRLF(trim(probe.from)) = replaceCRLF(trim(probe.second))
        /\ probe.from = probe.first
        /\ probe.firstEnv = probe.secondEnv

\* ------------------------------------------------------------ failing executions
\* The handler where executions fail: in maintenance mode, without an API key,
\* by the rate limit of clients that share an anon_id, or by the LLM call.
InitFail ==
    /\ variant \in {"fixedpoint", "single"}
    /\ body = BodyTypo
    /\ anonIds \in {[r \in Requests |-> r], [r \in Requests |-> 1]}
    /\ cacheBypass \in {[r \in Requests |-> FALSE], [r \in Requests |-> TRUE]}
    /\ cmsAuth = [r \in Requests |-> TRUE]
    /\ passwordGate = TRUE
    /\ maintenance \in BOOLEAN
    /\ apiKey \in BOOLEAN
    /\ now = 0
    /\ req = [r \in Requests |-> NewRequest]
    /\ promises = <<>>
    /\ cache = <<>>
    /\ pendingRequests = <<>>
    /\ memoryCache = <<>>
    /\ microtasks = <<>>
    /\ probe = NoProbe

SpecFail == InitFail /\ [][Next]_vars

\* No closure is running and no continuation is waiting to run.
idle(tasks, executions) ==
    tasks = <<>> /\ \A p \in 1..Len(executions) : executions[p].state # "pending"

\* C30: when an execution fails, the cache is left unchanged and its key is
\* removed from the in-flight table; when it succeeds, its result is cached and
\* the key is removed. Once nothing runs the in-flight table is empty, and a
\* request that arrives after a failure starts a fresh execution or joins
\* one that is still running: a failure is answered to the request that
\* started the failed execution only.
C30_FailureLeavesNoTrace ==
    [][/\ \A r \in Requests :
             (req[r].pc = "owner" /\ req'[r].pc = "done")
             => LET pr == promises[req[r].awaits]
                IN /\ pr.key \notin DOMAIN pendingRequests'
                   /\ pr.state \in {"fulfilled", "rejected"}
                   /\ pr.state = "rejected" => cache' = cache
                   /\ pr.state = "fulfilled"
                        => /\ pr.key \in DOMAIN cache'
                           /\ cache'[pr.key].data = pr.value
                           /\ req'[r].resp.status = 200
       /\ idle(microtasks', promises') => pendingRequests' = <<>>
       /\ \A r \in Requests :
             (req'[r].pc # req[r].pc /\ req'[r].pc \in {"owner", "waiter"})
             => \/ /\ req'[r].pc = "owner"
                   /\ Len(promises') = Len(promises) + 1
                   /\ req'[r].awaits = Len(promises')
                   /\ promises'[req'[r].awaits].owner = r
                \/ /\ req'[r].pc = "waiter"
                   /\ promises'[req'[r].awaits].state = "pending"
       /\ \A r \in Requests :
             (req'[r].pc = "done" /\ req'[r].resp.status \notin {200, 400})
             => promises'[req'[r].resp.from].owner = r]_vars

C30_Witness ==
    /\ cache = <<>>
    /\ \E r1 \in Requests, r2 \in Requests :
          /\ req[r1].pc = "done" /\ req[r1].resp.status = 500
          /\ promises[req[r1].resp.from].state = "rejected"
          /\ req[r2].pc = "owner"
          /\ req[r2].awaits > req[r1].resp.from
          /\ promises[req[r2].awaits].state = "pending"
          /\ promises[req[r2].awaits].awaiting = "llm"
          /\ pendingRequests = mapSet(<<>>, cacheKey, req[r2].awaits)

====
